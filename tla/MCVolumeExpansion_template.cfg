CONSTANTS
    i1 = i1
    i2 = i2
    Instances <- MCInstances
    TemplateInstances <- MCTemplateInstances
SPECIFICATION Spec
PROPERTIES
    SucceedOnlyWhenExpanded
