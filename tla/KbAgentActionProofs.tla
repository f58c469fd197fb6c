------------------------- MODULE KbAgentActionProofs -------------------------
(***************************************************************************)
(* Proofs about KbAgentAction for every set of pods, role labels, agent   *)
(* pods, action definitions and number of calls: the type invariant, and  *)
(* that a successful call of callActionWithSelector ran the action without *)
(* error on every selected pod with an agent.                              *)
(***************************************************************************)
EXTENDS KbAgentAction, SequenceTheorems, TLAPS

\* The inductive invariant.  While a call loops over its targets, its
\* result is still the previous call's error, the pods called are targets,
\* and each called pod with an agent replied without error; a pod that
\* replied without error ran the action; and each pod ran it at most once
\* per call, counting the run still to come in the call in progress.
IInv ==
    /\ TypeOK
    /\ calling => /\ result # "ok"
                  /\ Called \subseteq targets
                  /\ Called \cap AgentPods \subseteq oks
    /\ \A p \in oks : executed[p] > 0
    /\ \A p \in Pods :
         executed[p] + (IF calling /\ p \in targets \ Called THEN 1 ELSE 0)
             <= calls

\* SelectTargetPods only selects pods.
LEMMA SelectTargetPodsType ==
    ASSUME NEW s \in ActionSpec
    PROVE  SelectTargetPods(s) \subseteq SUBSET Pods
BY PodsAssumption DEF SelectTargetPods, podsWithRole

LEMMA InitIInv == Init => IInv
<1> SUFFICES ASSUME Init PROVE IInv
  OBVIOUS
<1>1. TypeOK
  <2>1. << >> \in Seq(Pods)
    BY EmptySeq
  <2>2. [p \in Pods |-> 0] \in [Pods -> 0..MaxCalls]
    BY MaxCallsAssumption
  <2>3. "none" \in Results /\ 0 \in 0..MaxCalls
    BY MaxCallsAssumption DEF Results
  <2>4. QED
    BY <2>1, <2>2, <2>3 DEF Init, TypeOK
<1>2. QED
  BY <1>1 DEF Init, IInv, Called

LEMMA CheckedCallActionIInv == IInv /\ CheckedCallAction => IInv'
<1> SUFFICES ASSUME IInv, CheckedCallAction PROVE IInv'
  OBVIOUS
<1>1. /\ ~calling /\ calls < MaxCalls /\ calls' = calls + 1
      /\ order' = << >> /\ oks' = {} /\ outs' = {} /\ output' = NoOutput
      /\ UNCHANGED <<spec, ready, executed>>
  BY DEF CheckedCallAction
<1>2. Called' = {}
  BY <1>1 DEF Called
<1>3. spec \in ActionSpec
  BY SpecsAssumption DEF IInv, TypeOK
<1>4. \/ /\ calling' = FALSE /\ targets' = targets /\ result' \in Results
      \/ /\ calling' = TRUE /\ targets' \in SelectTargetPods(spec)
         /\ result' = result
  BY DEF CheckedCallAction, Results
<1>5. targets' \subseteq Pods
  BY <1>3, <1>4, SelectTargetPodsType DEF IInv, TypeOK
<1>6. calling' => result' # "ok"
  BY <1>4 DEF CheckedCallAction
<1>7. \A p \in Pods :
        executed'[p] + (IF calling' /\ p \in targets' \ Called' THEN 1 ELSE 0)
            <= calls'
  <2> SUFFICES ASSUME NEW p \in Pods
               PROVE  executed[p] + (IF calling' /\ p \in targets' \ Called'
                                     THEN 1 ELSE 0) <= calls + 1
    BY <1>1
  <2>1. executed[p] <= calls /\ executed[p] \in Nat /\ calls \in Nat
    BY <1>1 DEF IInv, TypeOK
  <2>2. QED
    BY <2>1
<1>8. TypeOK'
  <2>1. << >> \in Seq(Pods)
    BY EmptySeq
  <2>2. result' \in Results
    BY <1>4 DEF IInv, TypeOK
  <2>3. calls' \in 0..MaxCalls
    BY <1>1, MaxCallsAssumption DEF IInv, TypeOK
  <2>4. calling' \in BOOLEAN
    BY <1>4
  <2>5. QED
    BY <1>1, <1>5, <2>1, <2>2, <2>3, <2>4 DEF IInv, TypeOK
<1>9. QED
  BY <1>1, <1>2, <1>6, <1>7, <1>8 DEF IInv

LEMMA CallPodIInv == IInv /\ CallPod => IInv'
<1> SUFFICES ASSUME IInv, CallPod PROVE IInv'
  OBVIOUS
<1>1. PICK p \in Uncalled :
        \E reply \in IF p \in AgentPods THEN Replies ELSE {"noAgent"} :
         /\ executed' = IF RanFor(reply)
                        THEN [executed EXCEPT ![p] = @ + 1] ELSE executed
         /\ order' = Append(order, p)
         /\ IF Aborts(reply)
            THEN /\ calling' = FALSE
                 /\ result' = IF reply = "agentError" THEN "ErrAgent"
                                                      ELSE "ErrHTTP"
                 /\ UNCHANGED <<oks, outs, output>>
            ELSE /\ oks' = IF reply \in {"output", "empty"} THEN oks \cup {p}
                                                            ELSE oks
                 /\ outs' = IF reply = "output" THEN outs \cup {p} ELSE outs
                 /\ output' = KeptOutput(p, reply)
                 /\ UNCHANGED <<calling, result>>
  BY DEF CallPod
<1>2. PICK reply \in IF p \in AgentPods THEN Replies ELSE {"noAgent"} :
         /\ executed' = IF RanFor(reply)
                        THEN [executed EXCEPT ![p] = @ + 1] ELSE executed
         /\ order' = Append(order, p)
         /\ IF Aborts(reply)
            THEN /\ calling' = FALSE
                 /\ result' = IF reply = "agentError" THEN "ErrAgent"
                                                      ELSE "ErrHTTP"
                 /\ UNCHANGED <<oks, outs, output>>
            ELSE /\ oks' = IF reply \in {"output", "empty"} THEN oks \cup {p}
                                                            ELSE oks
                 /\ outs' = IF reply = "output" THEN outs \cup {p} ELSE outs
                 /\ output' = KeptOutput(p, reply)
                 /\ UNCHANGED <<calling, result>>
  BY <1>1
<1>3. /\ calling /\ UNCHANGED <<spec, ready, targets, calls>>
  BY DEF CallPod
<1>4. /\ p \in targets \ Called
      /\ p \in Pods
      /\ order \in Seq(Pods)
      /\ targets \subseteq Pods
      /\ executed \in [Pods -> 0..MaxCalls]
      /\ calls \in 0..MaxCalls
  BY <1>3 DEF IInv, TypeOK, Uncalled
<1>5. Called' = Called \cup {p}
  <2>1. order' = Append(order, p) /\ order \in Seq(Pods)
    BY <1>2, <1>4
  <2>2. QED
    BY <2>1, AppendProperties DEF Called
<1>6. executed[p] + 1 <= calls
  BY <1>3, <1>4 DEF IInv
<1>7. \A q \in Pods :
        executed'[q] + (IF calling' /\ q \in targets' \ Called' THEN 1 ELSE 0)
            <= calls'
  <2> SUFFICES ASSUME NEW q \in Pods
               PROVE  executed'[q] + (IF calling' /\ q \in targets \ Called'
                                      THEN 1 ELSE 0) <= calls
    BY <1>3
  <2>1. executed[q] + (IF q \in targets \ Called THEN 1 ELSE 0) <= calls
    BY <1>3 DEF IInv
  <2>2. CASE q = p
    BY <1>2, <1>4, <1>5, <1>6, <2>2
  <2>3. CASE q # p
    BY <1>2, <1>4, <1>5, <2>1, <2>3
  <2>4. QED
    BY <2>2, <2>3
<1>8. \A q \in oks' : executed'[q] > 0
  <2>1. CASE Aborts(reply)
    BY <1>2, <1>4, <2>1 DEF IInv, RanFor, Aborts
  <2>2. CASE ~Aborts(reply)
    BY <1>2, <1>4, <2>2 DEF IInv, RanFor, Aborts
  <2>3. QED
    BY <2>1, <2>2
<1>9. calling' => /\ result' # "ok"
                  /\ Called' \subseteq targets'
                  /\ Called' \cap AgentPods \subseteq oks'
  BY <1>2, <1>3, <1>4, <1>5 DEF IInv, Aborts, Replies
<1>10. TypeOK'
  <2>1. order' \in Seq(Pods)
    BY <1>2, <1>4
  <2>2. executed' \in [Pods -> 0..MaxCalls]
    <3>1. CASE RanFor(reply)
      <4>1. executed' = [executed EXCEPT ![p] = executed[p] + 1]
        BY <1>2, <3>1
      <4>2. executed[p] \in Nat /\ calls \in Nat /\ calls <= MaxCalls
        BY <1>4
      <4>5. executed[p] + 1 \in 0..MaxCalls
        BY <1>6, <4>2, MaxCallsAssumption
      <4>6. \A q \in Pods : executed'[q] \in 0..MaxCalls
        BY <4>1, <4>5, <1>4
      <4>3. QED
        BY <4>1, <4>6, <1>4
    <3>2. CASE ~RanFor(reply)
      BY <1>2, <1>4, <3>2
    <3>3. QED
      BY <3>1, <3>2
  <2>3. oks' \subseteq Pods /\ outs' \subseteq Pods
    BY <1>2, <1>4 DEF IInv, TypeOK
  <2>4. output' \in Pods \cup {NoOutput}
    BY <1>2, <1>4 DEF IInv, TypeOK, KeptOutput
  <2>5. result' \in Results
    BY <1>2 DEF IInv, TypeOK, Results
  <2>6. calling' \in BOOLEAN
    BY <1>2, <1>3
  <2>7. QED
    BY <1>3, <2>1, <2>2, <2>3, <2>4, <2>5, <2>6 DEF IInv, TypeOK
<1>11. QED
  BY <1>7, <1>8, <1>9, <1>10 DEF IInv

LEMMA ReturnOutputIInv == IInv /\ ReturnOutput => IInv'
<1> SUFFICES ASSUME IInv, ReturnOutput PROVE IInv'
  OBVIOUS
<1>1. /\ calling' = FALSE /\ result' = "ok"
      /\ UNCHANGED <<spec, ready, targets, order, oks, outs, output,
                     executed, calls>>
  BY DEF ReturnOutput
<1>2. TypeOK'
  BY <1>1 DEF IInv, TypeOK, Results
<1>3. \A p \in Pods :
        executed'[p] + (IF calling' /\ p \in targets' \ Called' THEN 1 ELSE 0)
            <= calls'
  <2> SUFFICES ASSUME NEW p \in Pods PROVE executed[p] + 0 <= calls
    BY <1>1
  <2>1. /\ executed[p] \in Nat /\ calls \in Nat
        /\ executed[p] + (IF calling /\ p \in targets \ Called THEN 1 ELSE 0)
             <= calls
    BY DEF IInv, TypeOK
  <2>2. QED
    BY <2>1
<1>4. QED
  BY <1>1, <1>2, <1>3 DEF IInv, Called

LEMMA ReadyChangeIInv == IInv /\ ReadyChange => IInv'
BY DEF IInv, TypeOK, ReadyChange, Called

LEMMA StutterIInv == IInv /\ UNCHANGED vars => IInv'
BY DEF IInv, TypeOK, vars, Called

LEMMA NextIInv == IInv /\ [Next]_vars => IInv'
BY CheckedCallActionIInv, CallPodIInv, ReturnOutputIInv, ReadyChangeIInv,
   StutterIInv DEF Next

\* The type invariant of the kbagent client model holds in every state.
THEOREM TypeCorrect == Spec => []TypeOK
<1>1. Spec => []IInv
  BY InitIInv, NextIInv, PTL DEF Spec
<1>2. IInv => TypeOK
  BY DEF IInv
<1>3. QED
  BY <1>1, <1>2, PTL

\* The step that ends a call successfully: every target was called, every
\* target with an agent replied without error and ran the action.
LEMMA SuccessStep ==
    IInv /\ [Next]_vars =>
        (calling /\ result' = "ok" =>
            /\ targets = Called
            /\ targets \cap AgentPods \subseteq oks
            /\ \A p \in targets \cap AgentPods : executed'[p] > 0)
<1> SUFFICES ASSUME IInv, [Next]_vars, calling, result' = "ok"
             PROVE  /\ targets = Called
                    /\ targets \cap AgentPods \subseteq oks
                    /\ \A p \in targets \cap AgentPods : executed'[p] > 0
  OBVIOUS
<1>1. ReturnOutput
  <2>1. ~CheckedCallAction
    BY DEF CheckedCallAction
  <2>2. ~CallPod
    BY DEF CallPod, IInv
  <2>3. ~ReadyChange /\ ~UNCHANGED vars
    BY DEF ReadyChange, IInv, vars
  <2>4. QED
    BY <2>1, <2>2, <2>3 DEF Next
<1>2. targets = Called
  BY <1>1 DEF ReturnOutput, IInv, Uncalled
<1>3. QED
  BY <1>1, <1>2 DEF ReturnOutput, IInv

\* A call of callActionWithSelector that succeeds ran the action without
\* error on every selected pod that has an agent (SuccessRanOnAllTargets),
\* for every configuration.
THEOREM SuccessRanProof == Spec => SuccessRanOnAllTargets
<1>1. Spec => []IInv
  BY InitIInv, NextIInv, PTL DEF Spec
<1>2. QED
  BY <1>1, SuccessStep, PTL DEF Spec, SuccessRanOnAllTargets

-----------------------------------------------------------------------------
(* The output a successful call returns.                                  *)

\* out is the first element of s in O, or NoOutput when s has none.
IsFirst(s, O, out) ==
    \/ out = NoOutput /\ \A i \in DOMAIN s : s[i] \notin O
    \/ \E i \in DOMAIN s : /\ s[i] \in O /\ out = s[i]
                           /\ \A j \in 1..(i - 1) : s[j] \notin O

\* Calling a new pod that returns no output keeps the first output.
LEMMA AppendKeepsFirst ==
    ASSUME NEW s \in Seq(Pods), NEW p \in Pods, NEW O, NEW out,
           p \notin O, IsFirst(s, O, out)
    PROVE  IsFirst(Append(s, p), O, out)
<1>1. /\ DOMAIN s = 1..Len(s) /\ Len(s) \in Nat
      /\ DOMAIN Append(s, p) = 1..(Len(s) + 1)
      /\ \A i \in 1..Len(s) : Append(s, p)[i] = s[i]
      /\ Append(s, p)[Len(s) + 1] = p
  BY LenProperties, AppendProperties
<1>2. CASE out = NoOutput /\ \A i \in DOMAIN s : s[i] \notin O
  BY <1>1, <1>2 DEF IsFirst
<1>3. CASE \E i \in DOMAIN s : /\ s[i] \in O /\ out = s[i]
                               /\ \A j \in 1..(i - 1) : s[j] \notin O
  <2>1. PICK i \in DOMAIN s : /\ s[i] \in O /\ out = s[i]
                              /\ \A j \in 1..(i - 1) : s[j] \notin O
    BY <1>3
  <2> QED
    BY <1>1, <2>1 DEF IsFirst
<1> QED
  BY <1>2, <1>3 DEF IsFirst

\* Calling a new pod that returns an output makes it the first output
\* unless an earlier pod returned one (take first non-nil output).
LEMMA AppendOutputFirst ==
    ASSUME NEW s \in Seq(Pods), NEW p \in Pods, NEW O \in SUBSET Pods,
           NEW out, \A i \in DOMAIN s : s[i] # p, IsFirst(s, O, out)
    PROVE  IsFirst(Append(s, p), O \cup {p},
                   IF out = NoOutput THEN p ELSE out)
<1>1. /\ DOMAIN s = 1..Len(s) /\ Len(s) \in Nat
      /\ DOMAIN Append(s, p) = 1..(Len(s) + 1)
      /\ \A i \in 1..Len(s) : Append(s, p)[i] = s[i]
      /\ Append(s, p)[Len(s) + 1] = p
  BY LenProperties, AppendProperties
<1>2. CASE out = NoOutput /\ \A i \in DOMAIN s : s[i] \notin O
  <2>1. Len(s) + 1 \in DOMAIN Append(s, p)
        /\ Append(s, p)[Len(s) + 1] \in O \cup {p}
        /\ \A j \in 1..Len(s) : Append(s, p)[j] \notin O \cup {p}
    BY <1>1, <1>2
  <2> QED
    BY <1>1, <1>2, <2>1 DEF IsFirst
<1>3. CASE \E i \in DOMAIN s : /\ s[i] \in O /\ out = s[i]
                               /\ \A j \in 1..(i - 1) : s[j] \notin O
  <2>1. PICK i \in DOMAIN s : /\ s[i] \in O /\ out = s[i]
                              /\ \A j \in 1..(i - 1) : s[j] \notin O
    BY <1>3
  <2>2. out # NoOutput
    BY <2>1, NoOutputAssumption
  <2> QED
    BY <1>1, <2>1, <2>2 DEF IsFirst
<1> QED
  BY <1>2, <1>3 DEF IsFirst

\* The value FirstOutputWins requires of the output.
ChosenFirst(s, O, out) ==
    IF \E i \in DOMAIN s : s[i] \in O
    THEN out = s[CHOOSE i \in DOMAIN s :
                   s[i] \in O /\ \A j \in 1..(i - 1) : s[j] \notin O]
    ELSE out = NoOutput

\* The first element is the one CHOOSE picks: no other index is first.
LEMMA FirstIsChosen ==
    ASSUME NEW s \in Seq(Pods), NEW O \in SUBSET Pods, NEW out,
           IsFirst(s, O, out)
    PROVE  ChosenFirst(s, O, out)
<1>1. DOMAIN s = 1..Len(s) /\ Len(s) \in Nat
  BY LenProperties
<1>2. CASE \E i \in DOMAIN s : s[i] \in O
  <2>1. PICK i \in DOMAIN s : /\ s[i] \in O /\ out = s[i]
                              /\ \A j \in 1..(i - 1) : s[j] \notin O
    BY <1>2 DEF IsFirst
  <2> DEFINE c == CHOOSE k \in DOMAIN s :
                      s[k] \in O /\ \A j \in 1..(k - 1) : s[j] \notin O
  <2>2. c \in DOMAIN s /\ s[c] \in O /\ \A j \in 1..(c - 1) : s[j] \notin O
    BY <2>1
  <2>3. c = i
    BY <1>1, <2>1, <2>2
  <2> QED
    BY <1>2, <2>1, <2>3 DEF ChosenFirst
<1>3. CASE ~\E i \in DOMAIN s : s[i] \in O
  BY <1>3 DEF IsFirst, ChosenFirst
<1> QED
  BY <1>2, <1>3

\* The output kept by the call in progress or returned by the last one is
\* the first output of the pods called, in call order, and only called
\* pods returned outputs.
OutputFirst == outs \subseteq Called /\ IsFirst(order, outs, output)

LEMMA CallPodOutputFirst ==
    ASSUME IInv, OutputFirst, CallPod PROVE OutputFirst'
<1>1. PICK p \in Uncalled :
        \E reply \in IF p \in AgentPods THEN Replies ELSE {"noAgent"} :
         /\ order' = Append(order, p)
         /\ IF Aborts(reply)
            THEN UNCHANGED <<oks, outs, output>>
            ELSE /\ outs' = IF reply = "output" THEN outs \cup {p} ELSE outs
                 /\ output' = KeptOutput(p, reply)
  BY DEF CallPod
<1>2. PICK reply \in IF p \in AgentPods THEN Replies ELSE {"noAgent"} :
         /\ order' = Append(order, p)
         /\ IF Aborts(reply)
            THEN UNCHANGED <<oks, outs, output>>
            ELSE /\ outs' = IF reply = "output" THEN outs \cup {p} ELSE outs
                 /\ output' = KeptOutput(p, reply)
  BY <1>1
<1>3. /\ p \in Pods /\ p \notin Called /\ p \notin outs
      /\ \A i \in DOMAIN order : order[i] # p
      /\ order \in Seq(Pods) /\ outs \subseteq Pods
  BY DEF IInv, TypeOK, Uncalled, OutputFirst, Called
<1>4. Called' = Called \cup {p}
  BY <1>2, <1>3, AppendProperties DEF Called
<1>5. outs' \subseteq Called'
  BY <1>2, <1>3, <1>4 DEF OutputFirst
<1>6. CASE Aborts(reply) \/ reply # "output"
  <2>1. outs' = outs /\ output' = output
    BY <1>2, <1>6 DEF KeptOutput
  <2>2. IsFirst(Append(order, p), outs, output)
    BY <1>3, AppendKeepsFirst DEF OutputFirst
  <2> QED
    BY <1>2, <1>5, <2>1, <2>2 DEF OutputFirst
<1>7. CASE ~Aborts(reply) /\ reply = "output"
  <2>1. outs' = outs \cup {p}
        /\ output' = IF output = NoOutput THEN p ELSE output
    BY <1>2, <1>7 DEF KeptOutput
  <2>2. IsFirst(Append(order, p), outs \cup {p},
                IF output = NoOutput THEN p ELSE output)
    BY <1>3, AppendOutputFirst DEF OutputFirst
  <2> QED
    BY <1>2, <1>5, <2>1, <2>2 DEF OutputFirst
<1> QED
  BY <1>6, <1>7

LEMMA NextOutputFirst ==
    IInv /\ OutputFirst /\ [Next]_vars => OutputFirst'
<1> SUFFICES ASSUME IInv, OutputFirst, [Next]_vars PROVE OutputFirst'
  OBVIOUS
<1>1. CASE CheckedCallAction
  BY <1>1 DEF CheckedCallAction, OutputFirst, IsFirst, Called
<1>2. CASE CallPod
  BY <1>2, CallPodOutputFirst
<1>3. CASE ReturnOutput \/ ReadyChange \/ UNCHANGED vars
  BY <1>3 DEF ReturnOutput, ReadyChange, vars, OutputFirst, IsFirst, Called
<1> QED
  BY <1>1, <1>2, <1>3 DEF Next

\* A successful call of callActionWithSelector returns the output of the
\* first target, in call order, that returned one, and none when no target
\* did ("take first non-nil output"), for every configuration.
THEOREM FirstOutputWinsProof == Spec => []FirstOutputWins
<1>1. Init => OutputFirst
  BY DEF Init, OutputFirst, IsFirst, Called
<1>2. Spec => [](IInv /\ OutputFirst)
  BY <1>1, InitIInv, NextIInv, NextOutputFirst, PTL DEF Spec
<1>3. IInv /\ OutputFirst => FirstOutputWins
  <2> SUFFICES ASSUME IInv, OutputFirst PROVE FirstOutputWins
    OBVIOUS
  <2>1. order \in Seq(Pods) /\ outs \in SUBSET Pods
    BY DEF IInv, TypeOK
  <2>2. ChosenFirst(order, outs, output)
    BY <2>1, FirstIsChosen DEF OutputFirst
  <2> QED
    BY <2>2 DEF FirstOutputWins, ChosenFirst
<1> QED
  BY <1>2, <1>3, PTL

=============================================================================
