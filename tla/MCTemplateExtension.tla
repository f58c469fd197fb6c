------------------------- MODULE MCTemplateExtension -------------------------
(* Two configs, one with a template item in the ComponentParameter.        *)
EXTENDS TemplateExtension

CONSTANTS c1, c2

MCConfigs == {c1, c2}
MCItems == {c1}
=============================================================================
