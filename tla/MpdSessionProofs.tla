-------------------------- MODULE MpdSessionProofs --------------------------
EXTENDS MpdSession, TLAPS

(* The stack operations keep the stack well typed. *)
StackOK == depth \in 1..MaxDepth /\ frame \in [1..MaxDepth -> Frame]

LEMMA TopType == StackOK => Top \in Frame /\ Top.fn \in Function /\ Top.at \in Label
  BY DEF StackOK, Top, Frame

LEMMA GotoType ==
  ASSUME StackOK, NEW a \in Label, Goto(a)
  PROVE  StackOK'
  BY TopType DEF StackOK, Goto, At, Frame

LEMMA CallType ==
  ASSUME StackOK, NEW f \in Function, NEW a \in Label, CallThen(f, a)
  PROVE  StackOK'
<1>1. depth' \in 1..MaxDepth
  BY MaxDepthAssumption DEF StackOK, CallThen
<1>2. At(Top.fn, a) \in Frame /\ At(f, "entry") \in Frame
  BY TopType DEF At, Frame, Label
<1>3. frame' \in [1..MaxDepth -> Frame]
  BY <1>2 DEF StackOK, CallThen
<1>4. QED BY <1>1, <1>3 DEF StackOK

LEMMA BecomeType ==
  ASSUME StackOK, NEW f \in Function, Become(f)
  PROVE  StackOK'
<1>1. At(f, "entry") \in Frame
  BY DEF At, Frame, Label
<1>2. QED BY <1>1 DEF StackOK, Become

LEMMA ReturnType ==
  ASSUME StackOK, NEW r, Return(r), depth # 1
  PROVE  StackOK'
<1>1. Unused \in Frame
  BY DEF Unused, At, Frame, Label, Function
<1>2. QED BY <1>1, MaxDepthAssumption DEF StackOK, Return

-----------------------------------------------------------------------------
(* What a step may do to the call stack.  Client code keeps its label while *)
(* it waits; library code resumes at a label of its own, and only           *)
(* mpd_check_error is called at the end of a locked section.                *)

GotoStep == \E a \in Label \ {"entry"} : Top.fn \notin Client /\ Goto(a)

CallStep ==
  \E f \in Function \ {"app"}, a \in Label :
    /\ CallThen(f, a)
    /\ \/ Top.fn \in Client /\ a = Top.at
       \/ /\ Top.fn \notin Client
          /\ a \notin {"entry", "locked", "opened"}
          /\ a = "unlocked" => f = "check"
    /\ f = "check" => a = "unlocked" \/ ConnectOpened

BecomeStep ==
  \E f \in Function \ {"app", "check"} : Top.fn \in Sections /\ Become(f)

ReturnStep == Top.fn # "app" /\ \E r \in {"ok", "error"} : Return(r)

StackStep ==
  \/ GotoStep \/ CallStep \/ BecomeStep \/ ReturnStep
  \/ UNCHANGED <<session, depth, frame>>

LEMMA StackStepType ==
  ASSUME StackOK, Bottom, StackStep
  PROVE  StackOK' /\ Bottom'
<1>1. CASE GotoStep
  <2>. PICK a \in Label : Top.fn \notin Client /\ Goto(a)
    BY <1>1 DEF GotoStep
  <2>1. depth # 1 BY DEF Bottom, Top, At, Client
  <2>2. Bottom' BY <2>1 DEF Goto, Bottom, StackOK
  <2>3. QED BY <2>2, GotoType
<1>2. CASE CallStep
  <2>. PICK f \in Function \ {"app"}, a \in Label :
         /\ CallThen(f, a)
         /\ \/ Top.fn \in Client /\ a = Top.at
            \/ Top.fn \notin Client /\ a \notin {"entry", "opened"}
    BY <1>2 DEF CallStep
  <2>1. StackOK' BY CallType
  <2>2. Bottom'
    <3>1. CASE depth = 1
      <4>1. Top.fn = "app" /\ Top.at = "entry" /\ a = "entry"
        BY <3>1 DEF Bottom, Top, At, Client
      <4>2. QED BY <3>1, <4>1, <2>1 DEF CallThen, Bottom, StackOK, At
    <3>2. CASE depth # 1
      <4>1. depth + 1 # 1 /\ 1 \in 1..MaxDepth
        BY MaxDepthAssumption DEF StackOK, CallSpan
      <4>2. QED BY <3>2, <4>1 DEF CallThen, Bottom, StackOK
    <3>3. QED BY <3>1, <3>2
  <2>3. QED BY <2>1, <2>2
<1>3. CASE BecomeStep
  <2>. PICK f \in Function \ {"app"} : Top.fn \in Sections /\ Become(f)
    BY <1>3 DEF BecomeStep
  <2>1. depth # 1 BY DEF Bottom, Top, At, Sections
  <2>2. Bottom' BY <2>1 DEF Become, Bottom, StackOK
  <2>3. QED BY <2>2, BecomeType
<1>4. CASE ReturnStep
  <2>. PICK r \in {"ok", "error"} : Return(r)
    BY <1>4 DEF ReturnStep
  <2>1. depth # 1 BY <1>4 DEF ReturnStep, Bottom, Top, At
  <2>2. Bottom' BY <2>1 DEF Return, Bottom, StackOK
  <2>3. QED BY <2>1, <2>2, ReturnType
<1>5. CASE UNCHANGED <<session, depth, frame>>
  BY <1>5 DEF StackOK, Bottom
<1>6. QED BY <1>1, <1>2, <1>3, <1>4, <1>5 DEF StackStep

LEMMA NotBottom ==
  ASSUME Bottom, Top.fn # "app"
  PROVE  depth # 1
  BY DEF Bottom, Top, At

LEMMA Names ==
  /\ Api \subseteq Function \ {"app"}
  /\ Callbacks \subseteq Function \ {"app"}
  /\ Client \subseteq Function
  /\ "app" \in Client
  /\ Sections \subseteq Function \ {"app"}
  /\ "check" \in Function \ {"app"}
  /\ "check" \notin Api \cup Callbacks
  /\ Callbacks \subseteq Client
  BY DEF Api, Function, Callbacks, Client, Sections

(* Every action does one of these to the stack. *)
LEMMA NextStackStep ==
  ASSUME TypeOK, Next
  PROVE  StackStep
<1> USE DEF StackStep, Running, At, stack
<1>0. StackOK /\ Top.fn \in Function /\ Top.at \in Label /\ ret \in {"ok", "error"}
  BY TopType DEF TypeOK, StackOK
<1>1. ASSUME NEW f \in Api, ClientCall(f) PROVE StackStep
  BY <1>0, <1>1, Names DEF ClientCall, CallStep
<1>2. CASE CallbackReturn
  BY <1>2 DEF CallbackReturn, ReturnStep, Callbacks
<1>3. CASE CheckReport
  BY <1>3 DEF CheckReport, CallStep, Client, Callbacks, Label, Function
<1>4. CASE CheckResume
  BY <1>4 DEF CheckResume, CallStep, ReturnStep, Client, Callbacks, Label, Function, Api
<1>5. CASE Disconnect
  BY <1>5 DEF Disconnect, CallStep, ReturnStep, Client, Callbacks, Label, Function
<1>6. CASE Disconnected
  BY <1>6 DEF Disconnected, ReturnStep
<1>7. CASE UnlockConn
  BY <1>0, <1>7 DEF UnlockConn, GotoStep, CheckError, CallStep, Function, Api, Sections, Label, Client, Callbacks
<1>8. CASE ConnectEntry
  BY <1>0, <1>8 DEF ConnectEntry, GotoStep, CallStep, Function, Api, Sections, Label, Client, Callbacks
<1>9. CASE ConnectOpen
  BY <1>0, <1>9 DEF ConnectOpen, GotoStep, Label, Client, Callbacks
<1>10. CASE ConnectOpened
  BY <1>0, <1>10 DEF ConnectOpened, CallStep, Function, Api, Sections, Label, Client, Callbacks
<1>11. CASE ConnectFailed
  BY <1>0, <1>11 DEF ConnectFailed, ReturnStep
<1>12. CASE ConnectAllowed
  BY <1>0, <1>12 DEF ConnectAllowed, CallStep, Function, Api, Sections, Label, Client, Callbacks
<1>13. CASE ConnectAuth
  BY <1>0, <1>13 DEF ConnectAuth, CallStep, Function, Api, Sections, Label, Client, Callbacks
<1>14. CASE ConnectAnnounce
  BY <1>0, <1>14 DEF ConnectAnnounce, CallStep, Function, Api, Sections, Label, Client, Callbacks
<1>15. CASE ConnectDone
  BY <1>0, <1>15 DEF ConnectDone, ReturnStep
<1>16. CASE Refuse
  BY <1>0, <1>16 DEF Refuse, ReturnStep, Sections
<1>17. CASE Command
  BY <1>0, <1>17 DEF Command, GotoStep, Enter, Label, Client, Callbacks
<1>18. CASE AllowedCommands
  BY <1>0, <1>18 DEF AllowedCommands, GotoStep, Enter, Label, Client, Callbacks
<1>19. CASE UpdateOutputs
  BY <1>0, <1>19 DEF UpdateOutputs, GotoStep, Enter, Label, Client, Callbacks
<1>20. CASE SetTimeout
  BY <1>0, <1>20 DEF SetTimeout, GotoStep, Enter, Label, Client, Callbacks
<1>21. CASE Pause
  BY <1>0, <1>21 DEF Pause, GotoStep, Enter, Label, Client, Callbacks
<1>22. CASE StatusUpdate
  BY <1>0, <1>22 DEF StatusUpdate, GotoStep, Enter, Label, Client, Callbacks
<1>23. CASE StatsUpdate
  BY <1>0, <1>23 DEF StatsUpdate, GotoStep, CallStep, Enter, Function, Api, Sections, Label, Client, Callbacks
<1>24. CASE SectionReturn
  BY <1>0, <1>24 DEF SectionReturn, ReturnStep
<1>25. CASE SetDone
  BY <1>0, <1>25 DEF SetDone, ReturnStep
<1>26. CASE SetVolumeDone
  BY <1>0, <1>26 DEF SetVolumeDone, BecomeStep, Function, Api, Sections, Label, Client, Callbacks
<1>27. CASE ControlDone
  BY <1>0, <1>27 DEF ControlDone, BecomeStep, Function, Api, Sections, Label, Client, Callbacks
<1>28. CASE SendPasswordNext
  BY <1>0, <1>28 DEF SendPasswordNext, CallStep, Function, Api, Sections, Label, Client, Callbacks
<1>29. CASE SendPasswordReturn
  BY <1>0, <1>29 DEF SendPasswordReturn, ReturnStep
<1>30. CASE StatusFailed
  BY <1>0, <1>30 DEF StatusFailed, ReturnStep
<1>31. CASE StatusDiff
  BY <1>0, <1>31 DEF StatusDiff, GotoStep, CallStep, Function, Api, Sections, Label, Client, Callbacks
<1>32. CASE StatusOutputs
  BY <1>0, <1>32 DEF StatusOutputs, GotoStep, CallStep, Function, Api, Sections, Label, Client, Callbacks
<1>33. CASE StatusGone
  BY <1>0, <1>33 DEF StatusGone
<1>34. CASE StatusNotify
  BY <1>0, <1>34 DEF StatusNotify, GotoStep, CallStep, Function, Api, Sections, Label, Client, Callbacks
<1>35. CASE StatusDone
  BY <1>0, <1>35 DEF StatusDone, ReturnStep
<1>36. CASE GetterEntry
  BY <1>0, <1>36 DEF GetterEntry, CallStep, ReturnStep, Function, Api, Sections, Label, Client, Callbacks
<1>37. CASE GetterChecked
  BY <1>0, <1>37 DEF GetterChecked, ReturnStep
<1>38. CASE GetterGone
  BY <1>0, <1>38 DEF GetterGone
<1>39. CASE Crashed
  BY <1>39 DEF Crashed, vars
<1>40. QED
  BY <1>1, <1>2, <1>3, <1>4, <1>5, <1>6, <1>7, <1>8, <1>9, <1>10, <1>11, <1>12, <1>13, <1>14, <1>15, <1>16, <1>17, <1>18, <1>19, <1>20, <1>21, <1>22, <1>23, <1>24, <1>25, <1>26, <1>27, <1>28, <1>29, <1>30, <1>31, <1>32, <1>33, <1>34, <1>35, <1>36, <1>37, <1>38, <1>39
     DEF Next, ClientStep, LibraryStep
-----------------------------------------------------------------------------
(* Type correctness. *)

DataOK ==
  /\ connected \in BOOLEAN /\ conn \in BOOLEAN /\ legacy \in BOOLEAN
  /\ lock \in BOOLEAN /\ error \in ErrorClass
  /\ status \in BOOLEAN /\ stats \in BOOLEAN
  /\ hasIdle \in BOOLEAN /\ hasOutputs \in BOOLEAN
  /\ ret \in {"ok", "error"}
  /\ announced \in BOOLEAN
  /\ fault \in Faults

LEMMA TypeSplit == TypeOK <=> StackOK /\ DataOK
  BY DEF TypeOK, StackOK, DataOK

LEMMA NextData ==
  ASSUME DataOK, Next
  PROVE  DataOK'
<1> USE DEF DataOK, session, cache, stack
<1>1. ASSUME NEW f \in Api, ClientCall(f) PROVE DataOK'
  BY <1>1 DEF ClientCall
<1>2. CASE CallbackReturn
  BY <1>2 DEF CallbackReturn, Return
<1>3. CASE CheckReport
  BY <1>3 DEF CheckReport, ErrorClass
<1>4. CASE CheckResume
  BY <1>4 DEF CheckResume, Return
<1>5. CASE Disconnect
  BY <1>5 DEF Disconnect, Return, ErrorClass
<1>6. CASE Disconnected
  BY <1>6 DEF Disconnected, Return
<1>7. CASE UnlockConn
  BY <1>7 DEF UnlockConn, CheckError
<1>8. CASE ConnectEntry
  BY <1>8 DEF ConnectEntry
<1>9. CASE ConnectOpen
  BY OutcomesAssumption, <1>9 DEF ConnectOpen, ErrorClass
<1>10. CASE ConnectOpened
  BY <1>10 DEF ConnectOpened
<1>11. CASE ConnectFailed
  BY <1>11 DEF ConnectFailed, Return
<1>12. CASE ConnectAllowed
  BY <1>12 DEF ConnectAllowed
<1>13. CASE ConnectAuth
  BY <1>13 DEF ConnectAuth
<1>14. CASE ConnectAnnounce
  BY <1>14 DEF ConnectAnnounce
<1>15. CASE ConnectDone
  BY <1>15 DEF ConnectDone, Return
<1>16. CASE Refuse
  BY <1>16 DEF Refuse, Return
<1>17. CASE Command
  BY OutcomesAssumption, <1>17 DEF Command, Enter, Exchange, ErrorClass, Faults
<1>18. CASE AllowedCommands
  BY OutcomesAssumption, <1>18 DEF AllowedCommands, Enter, Exchange, ErrorClass, Faults
<1>19. CASE UpdateOutputs
  BY OutcomesAssumption, <1>19 DEF UpdateOutputs, Enter, Exchange, ErrorClass, Faults
<1>20. CASE SetTimeout
  BY <1>20 DEF SetTimeout, Enter
<1>21. CASE Pause
  <2>1. UNCHANGED <<connected, conn, legacy, ret, announced, cache>> /\ lock'
    BY <1>21 DEF Pause, Enter
  <2>2. UNCHANGED <<error, fault>> \/ Exchange
    BY <1>21 DEF Pause
  <2>3. error' \in ErrorClass /\ fault' \in Faults
    BY OutcomesAssumption, <2>2 DEF Exchange, ErrorClass, Faults
  <2>4. QED BY <1>21, <2>1, <2>3 DEF Pause, Enter
<1>22. CASE StatusUpdate
  BY OutcomesAssumption, <1>22 DEF StatusUpdate, Enter, Exchange, ErrorClass, Faults
<1>23. CASE StatsUpdate
  BY OutcomesAssumption, <1>23 DEF StatsUpdate, Enter, Exchange, ErrorClass, Faults
<1>24. CASE SectionReturn
  BY <1>24 DEF SectionReturn, Return
<1>25. CASE SetDone
  BY <1>25 DEF SetDone, Return, QueueUpdate
<1>26. CASE SetVolumeDone
  BY <1>26 DEF SetVolumeDone, QueueUpdate
<1>27. CASE ControlDone
  BY <1>27 DEF ControlDone
<1>28. CASE SendPasswordNext
  BY <1>28 DEF SendPasswordNext
<1>29. CASE SendPasswordReturn
  BY <1>29 DEF SendPasswordReturn, Return
<1>30. CASE StatusFailed
  BY <1>30 DEF StatusFailed, Return
<1>31. CASE StatusDiff
  <2>1. error' \in ErrorClass /\ fault' \in Faults
    BY OutcomesAssumption, <1>31 DEF StatusDiff, Exchange, Faults
  <2>2. QED BY <1>31, <2>1 DEF StatusDiff
<1>32. CASE StatusOutputs
  BY OutcomesAssumption, <1>32 DEF StatusOutputs, Exchange, ErrorClass, Faults
<1>33. CASE StatusGone
  BY <1>33 DEF StatusGone, Faults
<1>34. CASE StatusNotify
  BY <1>34 DEF StatusNotify
<1>35. CASE StatusDone
  BY <1>35 DEF StatusDone, Return
<1>36. CASE GetterEntry
  BY <1>36 DEF GetterEntry, Return
<1>37. CASE GetterChecked
  BY <1>37 DEF GetterChecked, Return
<1>38. CASE GetterGone
  BY <1>38 DEF GetterGone, Faults
<1>39. CASE Crashed
  BY <1>39 DEF Crashed, vars
<1>40. QED
  BY <1>1, <1>2, <1>3, <1>4, <1>5, <1>6, <1>7, <1>8, <1>9, <1>10, <1>11, <1>12, <1>13, <1>14, <1>15, <1>16, <1>17, <1>18, <1>19, <1>20, <1>21, <1>22, <1>23, <1>24, <1>25, <1>26, <1>27, <1>28, <1>29, <1>30, <1>31, <1>32, <1>33, <1>34, <1>35, <1>36, <1>37, <1>38, <1>39
     DEF Next, ClientStep, LibraryStep

TypeInv == TypeOK /\ Bottom

LEMMA TypeInit == Init => TypeInv
<1> SUFFICES ASSUME Init PROVE TypeInv
  OBVIOUS
<1>1. At("app", "entry") \in Frame /\ Unused \in Frame
  BY DEF At, Unused, Frame, Function, Client, Label
<1>2. 1 \in 1..MaxDepth
  BY MaxDepthAssumption DEF CallSpan
<1>3. frame \in [1..MaxDepth -> Frame] /\ frame[1] = At("app", "entry")
  BY <1>1, <1>2 DEF Init
<1>4. StackOK /\ Bottom
  BY <1>2, <1>3 DEF Init, StackOK, Bottom
<1>5. DataOK
  BY DEF Init, DataOK, ErrorClass, Faults
<1>6. QED BY <1>4, <1>5, TypeSplit DEF TypeInv

LEMMA TypeStep == TypeInv /\ [Next]_vars => TypeInv'
<1> SUFFICES ASSUME TypeInv, [Next]_vars PROVE TypeInv'
  OBVIOUS
<1>1. CASE Next
  <2>1. StackOK' /\ Bottom'
    BY <1>1, NextStackStep, StackStepType, TypeSplit DEF TypeInv
  <2>2. DataOK'
    BY <1>1, NextData, TypeSplit DEF TypeInv
  <2>3. TypeOK'
    BY <2>1, <2>2 DEF TypeOK, StackOK, DataOK
  <2>4. QED BY <2>1, <2>3 DEF TypeInv
<1>2. CASE UNCHANGED vars
  BY <1>2 DEF TypeInv, TypeOK, Bottom, vars, session, cache, stack
<1>3. QED BY <1>1, <1>2

(* Every variable keeps its type: in particular the call stack never grows *)
(* beyond its bound nor is the main loop's frame ever returned from.       *)
THEOREM TypeCorrect == Spec => []TypeOK
<1>1. Init => TypeInv BY TypeInit
<1>2. TypeInv /\ [Next]_vars => TypeInv' BY TypeStep
<1>3. TypeInv => TypeOK BY DEF TypeInv
<1>4. QED BY <1>1, <1>2, <1>3, PTL DEF Spec
-----------------------------------------------------------------------------
(* Where each stack operation leaves the running frame. *)

LEMMA GotoTop ==
  ASSUME StackOK, NEW a \in Label, Goto(a)
  PROVE  /\ depth' = depth
         /\ Top' = At(Top.fn, a)
         /\ \A i \in 1..MaxDepth : i # depth => frame'[i] = frame[i]
  BY DEF StackOK, Goto, Top

LEMMA CallTop ==
  ASSUME StackOK, NEW f \in Function, NEW a \in Label, CallThen(f, a)
  PROVE  /\ depth' = depth + 1
         /\ depth + 1 \in 1..MaxDepth
         /\ Top' = At(f, "entry")
         /\ frame'[depth] = At(Top.fn, a)
         /\ \A i \in 1..MaxDepth : i \notin {depth, depth + 1} => frame'[i] = frame[i]
<1>1. depth + 1 \in 1..MaxDepth /\ depth' = depth + 1 /\ depth # depth + 1
  BY MaxDepthAssumption DEF StackOK, CallThen
<1>2. Top' = At(f, "entry")
  BY <1>1 DEF StackOK, CallThen, Top
<1>3. frame'[depth] = At(Top.fn, a)
  BY <1>1 DEF StackOK, CallThen
<1>4. \A i \in 1..MaxDepth : i \notin {depth, depth + 1} => frame'[i] = frame[i]
  BY DEF StackOK, CallThen
<1>5. QED BY <1>1, <1>2, <1>3, <1>4

LEMMA BecomeTop ==
  ASSUME StackOK, NEW f \in Function, Become(f)
  PROVE  /\ depth' = depth
         /\ Top' = At(f, "entry")
         /\ \A i \in 1..MaxDepth : i # depth => frame'[i] = frame[i]
  BY DEF StackOK, Become, Top

LEMMA ReturnTop ==
  ASSUME StackOK, Bottom, StackShape, Top.fn # "app", NEW r, Return(r)
  PROVE  /\ depth # 1
         /\ depth' = depth - 1 /\ depth - 1 \in 1..MaxDepth
         /\ Top' = frame[depth - 1]
         /\ \A i \in 1..MaxDepth : i # depth => frame'[i] = frame[i]
         /\ Top'.at # "opened"
         /\ Top'.at = "unlocked" => Top.fn = "check"
         /\ Top'.at = "entry" => Top'.fn \in Client
<1>1. depth # 1
  BY NotBottom
<1>2. depth - 1 \in 1..depth /\ depth - 1 < depth /\ depth - 1 \in 1..MaxDepth /\ (depth - 1) + 1 = depth
  BY <1>1, MaxDepthAssumption DEF StackOK
<1>3. depth' = depth - 1 /\ \A i \in 1..MaxDepth : i # depth => frame'[i] = frame[i]
  BY <1>1 DEF Return, StackOK
<1>4. Top' = frame[depth - 1]
  BY <1>2, <1>3 DEF Top
<1>5. /\ frame[depth - 1].at = "entry" => frame[depth - 1].fn \in Client
      /\ frame[depth - 1].at # "opened"
      /\ frame[depth - 1].at = "unlocked" => Top.fn = "check"
  BY <1>2 DEF StackShape, Top
<1>6. QED BY <1>1, <1>2, <1>3, <1>4, <1>5

LEMMA ShapeStep ==
  ASSUME StackOK, Bottom, StackShape, StackStep
  PROVE  StackShape'
<1>0. depth \in 1..MaxDepth /\ MaxDepth \in Nat
  BY MaxDepthAssumption DEF StackOK
<1>1. CASE GotoStep
  <2>. PICK a \in Label \ {"entry"} : Top.fn \notin Client /\ Goto(a)
    BY <1>1 DEF GotoStep
  <2>1. frame'[depth] = At(Top.fn, a) /\ depth' = depth
        /\ \A i \in 1..depth : i # depth => frame'[i] = frame[i]
    BY <1>0, GotoTop DEF Top
  <2>2. SUFFICES ASSUME NEW i \in 1..depth
                 PROVE  /\ frame'[i].fn \in Client => frame'[i].at = "entry"
                        /\ i < depth =>
                             /\ frame'[i].at = "entry" => frame'[i].fn \in Client
                             /\ frame'[i].at \notin {"locked", "opened"}
                             /\ frame'[i].at = "unlocked" => frame'[i + 1].fn = "check"
    BY <2>1 DEF StackShape
  <2>3. CASE i = depth
    BY <2>1, <2>3, <1>0 DEF At
  <2>4. CASE i # depth
    <3>1. i < depth /\ i + 1 \in 1..depth
      BY <2>4, <1>0
    <3>2. frame'[i + 1].fn = frame[i + 1].fn
      BY <2>1, <3>1 DEF Top, At
    <3>3. QED BY <2>1, <2>4, <3>1, <3>2 DEF StackShape
  <2>5. QED BY <2>3, <2>4
<1>2. CASE CallStep
  <2>. PICK f \in Function \ {"app"}, a \in Label :
         /\ CallThen(f, a)
         /\ \/ Top.fn \in Client /\ a = Top.at
            \/ /\ Top.fn \notin Client
               /\ a \notin {"entry", "locked", "opened"}
               /\ a = "unlocked" => f = "check"
    BY <1>2 DEF CallStep
  <2>0. Top.fn \in Client => Top.at = "entry"
    BY <1>0 DEF StackShape, Top
  <2>1. /\ depth' = depth + 1 /\ depth + 1 \in 1..MaxDepth
        /\ frame'[depth + 1] = At(f, "entry")
        /\ frame'[depth] = At(Top.fn, a)
        /\ \A i \in 1..depth : i # depth => frame'[i] = frame[i]
    BY <1>0, CallTop DEF Top
  <2>2. SUFFICES ASSUME NEW i \in 1..(depth + 1)
                 PROVE  /\ frame'[i].fn \in Client => frame'[i].at = "entry"
                        /\ i < depth + 1 =>
                             /\ frame'[i].at = "entry" => frame'[i].fn \in Client
                             /\ frame'[i].at \notin {"locked", "opened"}
                             /\ frame'[i].at = "unlocked" => frame'[i + 1].fn = "check"
    BY <2>1 DEF StackShape
  <2>3. CASE i = depth + 1
    BY <2>1, <2>3, <1>0 DEF At
  <2>4. CASE i = depth
    <3>1. frame'[i] = At(Top.fn, a) /\ frame'[i + 1] = At(f, "entry")
      BY <2>1, <2>4
    <3>2. CASE Top.fn \in Client
      BY <2>0, <2>4, <3>1, <3>2 DEF At, Client, Callbacks
    <3>3. CASE Top.fn \notin Client
      BY <2>4, <3>1, <3>3 DEF At
    <3>4. QED BY <3>2, <3>3
  <2>5. CASE i < depth
    <3>1. i + 1 \in 1..depth /\ i # depth /\ i \in 1..depth
      BY <2>5, <1>0
    <3>2. frame'[i + 1].fn = frame[i + 1].fn
      BY <2>1, <3>1 DEF Top, At
    <3>3. QED BY <2>1, <2>5, <3>1, <3>2 DEF StackShape
  <2>6. QED BY <2>3, <2>4, <2>5, <1>0
<1>3. CASE BecomeStep
  <2>. PICK f \in Function \ {"app"} : Top.fn \in Sections /\ Become(f)
    BY <1>3 DEF BecomeStep
  <2>0. Top.fn # "check"
    BY DEF Sections
  <2>1. frame'[depth] = At(f, "entry") /\ depth' = depth
        /\ \A i \in 1..depth : i # depth => frame'[i] = frame[i]
    BY <1>0, BecomeTop DEF Top
  <2>2. SUFFICES ASSUME NEW i \in 1..depth
                 PROVE  /\ frame'[i].fn \in Client => frame'[i].at = "entry"
                        /\ i < depth =>
                             /\ frame'[i].at = "entry" => frame'[i].fn \in Client
                             /\ frame'[i].at \notin {"locked", "opened"}
                             /\ frame'[i].at = "unlocked" => frame'[i + 1].fn = "check"
    BY <2>1 DEF StackShape
  <2>3. CASE i = depth
    BY <2>1, <2>3, <1>0 DEF At
  <2>4. CASE i # depth
    <3>1. i < depth /\ i + 1 \in 1..depth
      BY <2>4, <1>0
    <3>2. i + 1 = depth => frame[i].at # "unlocked"
      BY <2>0, <3>1 DEF StackShape, Top
    <3>3. QED BY <2>1, <2>4, <3>1, <3>2 DEF StackShape
  <2>5. QED BY <2>3, <2>4
<1>4. CASE ReturnStep
  <2>. PICK r \in {"ok", "error"} : Return(r)
    BY <1>4 DEF ReturnStep
  <2>1. /\ depth' = depth - 1 /\ depth # 1
        /\ \A i \in 1..(depth - 1) : frame'[i] = frame[i]
    BY <1>0, <1>4, ReturnTop DEF ReturnStep
  <2>2. \A i \in 1..(depth - 1) : i \in 1..depth /\ i < depth
    BY <1>0
  <2>3. \A i \in 1..(depth - 1) : i < depth - 1 => i + 1 \in 1..(depth - 1)
    BY <1>0
  <2>4. QED BY <2>1, <2>2, <2>3 DEF StackShape
<1>5. CASE UNCHANGED <<session, depth, frame>>
  BY <1>5 DEF StackShape
<1>6. QED BY <1>1, <1>2, <1>3, <1>4, <1>5 DEF StackStep
-----------------------------------------------------------------------------
(* The connection is there whenever it is used. *)

Acquire == Command \/ AllowedCommands \/ UpdateOutputs \/ SetTimeout \/ Pause
             \/ StatusUpdate \/ StatsUpdate

(* mpd_status_update is at "outputs" only once it has compared.            *)
QuietLabel(a) == a = "outputs" /\ Top.fn = "statusUpdate" => StatusDiff

(* Every action but mpd_newConnection and mpd_unlock_conn: none of them    *)
(* leaves the running frame just connected, nor just past its section with *)
(* a result of MPD_OK, nor calls mpd_check_error after a section.          *)
QuietStep ==
  \/ \E f \in Function, a \in Label :
       /\ CallThen(f, a)
       /\ f = "check" => ConnectOpened
       /\ Top.fn \notin Client => QuietLabel(a)
  \/ \E f \in Function \ {"check"} : Become(f)
  \/ \E a \in Label \ {"entry", "opened", "unlocked", "checked"} : Goto(a) /\ QuietLabel(a)
  \/ Top.fn \notin {"app", "check"} /\ \E r \in {"ok", "error"} : Return(r)
  \/ Top.fn = "check" /\ Return("error")
  \/ UNCHANGED <<session, stack>> /\ Top.at \notin {"opened", "unlocked"}

QuietTop == Top.at # "opened" /\ (Top.at = "unlocked" => ret # "ok")

LEMMA QuietStepTop ==
  ASSUME StackOK, Bottom, StackShape, QuietStep
  PROVE  QuietTop'
<1>1. CASE \E f \in Function, a \in Label : CallThen(f, a)
  <2>. PICK f \in Function, a \in Label : CallThen(f, a)
    BY <1>1
  <2>1. Top' = At(f, "entry")
    BY CallTop
  <2>2. QED BY <2>1 DEF QuietTop, At
<1>2. CASE \E f \in Function \ {"check"} : Become(f)
  BY <1>2, BecomeTop DEF QuietTop, At
<1>3. CASE \E a \in Label \ {"entry", "opened", "unlocked", "checked"} : Goto(a)
  BY <1>3, GotoTop DEF QuietTop, At
<1>4. CASE Top.fn \notin {"app", "check"} /\ \E r \in {"ok", "error"} : Return(r)
  BY <1>4, ReturnTop DEF QuietTop
<1>5. CASE Top.fn = "check" /\ Return("error")
  <2>1. Top'.at # "opened"
    BY <1>5, ReturnTop
  <2>2. ret' # "ok"
    BY <1>5 DEF Return
  <2>3. QED BY <2>1, <2>2 DEF QuietTop
<1>6. CASE UNCHANGED <<session, stack>> /\ Top.at \notin {"opened", "unlocked"}
  BY <1>6 DEF QuietTop, Top, stack
<1>7. QED BY <1>1, <1>2, <1>3, <1>4, <1>5, <1>6 DEF QuietStep

LEMMA NextQuiet ==
  ASSUME TypeOK, Next, ~ConnectOpen, ~UnlockConn, ~Crashed
  PROVE  QuietStep
<1> USE DEF QuietStep, QuietLabel, Acquire, Running, At, stack
<1>0. StackOK /\ Top.fn \in Function /\ Top.at \in Label /\ ret \in {"ok", "error"}
  BY TopType DEF TypeOK, StackOK
<1>1. ASSUME NEW f \in Api, ClientCall(f) PROVE QuietStep
  BY <1>0, <1>1, Names DEF ClientCall
<1>2. CASE CallbackReturn
  BY <1>0, <1>2 DEF CallbackReturn, Callbacks
<1>3. CASE CheckReport
  BY <1>0, <1>3 DEF CheckReport, Function, Api, Sections, Client, Callbacks, Label
<1>4. CASE CheckResume
  BY <1>0, <1>4 DEF CheckResume, Function, Api, Sections, Client, Callbacks, Label
<1>5. CASE Disconnect
  BY <1>0, <1>5 DEF Disconnect, Function, Api, Sections, Client, Callbacks, Label
<1>6. CASE Disconnected
  BY <1>0, <1>6 DEF Disconnected
<1>7. CASE ConnectEntry
  BY <1>0, <1>7 DEF ConnectEntry, Function, Api, Sections, Client, Callbacks, Label
<1>8. CASE ConnectOpened
  BY <1>0, <1>8 DEF ConnectOpened, Function, Api, Sections, Client, Callbacks, Label
<1>9. CASE ConnectFailed
  BY <1>0, <1>9 DEF ConnectFailed
<1>10. CASE ConnectAllowed
  BY <1>0, <1>10 DEF ConnectAllowed, Function, Api, Sections, Client, Callbacks, Label
<1>11. CASE ConnectAuth
  BY <1>0, <1>11 DEF ConnectAuth, Function, Api, Sections, Client, Callbacks, Label
<1>12. CASE ConnectAnnounce
  BY <1>0, <1>12 DEF ConnectAnnounce, Function, Api, Sections, Client, Callbacks, Label
<1>13. CASE ConnectDone
  BY <1>0, <1>13 DEF ConnectDone
<1>14. CASE Refuse
  BY <1>0, <1>14 DEF Refuse, Sections
<1>15. CASE Command
  BY <1>0, <1>15 DEF Command, Enter, Label
<1>16. CASE AllowedCommands
  BY <1>0, <1>16 DEF AllowedCommands, Enter, Label
<1>17. CASE UpdateOutputs
  BY <1>0, <1>17 DEF UpdateOutputs, Enter, Label
<1>18. CASE SetTimeout
  BY <1>0, <1>18 DEF SetTimeout, Enter, Label
<1>19. CASE Pause
  BY <1>0, <1>19 DEF Pause, Enter, Label
<1>20. CASE StatusUpdate
  BY <1>0, <1>20 DEF StatusUpdate, Enter, Label
<1>21. CASE StatsUpdate
  BY <1>0, <1>21 DEF StatsUpdate, Enter, Function, Api, Sections, Client, Callbacks, Label
<1>22. CASE SectionReturn
  BY <1>0, <1>22 DEF SectionReturn, cache
<1>23. CASE SetDone
  BY <1>0, <1>23 DEF SetDone
<1>24. CASE SetVolumeDone
  BY <1>0, <1>24 DEF SetVolumeDone, Function, Api, Sections, Client, Callbacks
<1>25. CASE ControlDone
  BY <1>0, <1>25 DEF ControlDone, Function, Api, Sections, Client, Callbacks
<1>26. CASE SendPasswordNext
  BY <1>0, <1>26 DEF SendPasswordNext, Function, Api, Sections, Client, Callbacks, Label
<1>27. CASE SendPasswordReturn
  BY <1>0, <1>27 DEF SendPasswordReturn
<1>28. CASE StatusFailed
  BY <1>0, <1>28 DEF StatusFailed
<1>29. CASE StatusDiff
  BY <1>0, <1>29 DEF StatusDiff, Function, Api, Sections, Client, Callbacks, Label
<1>30. CASE StatusOutputs
  BY <1>0, <1>30 DEF StatusOutputs, Function, Api, Sections, Client, Callbacks, Label
<1>31. CASE StatusGone
  BY <1>0, <1>31 DEF StatusGone, cache
<1>32. CASE StatusNotify
  BY <1>0, <1>32 DEF StatusNotify, Function, Api, Sections, Client, Callbacks, Label
<1>33. CASE StatusDone
  BY <1>0, <1>33 DEF StatusDone
<1>34. CASE GetterEntry
  BY <1>0, <1>34 DEF GetterEntry, Function, Api, Sections, Client, Callbacks, Label
<1>35. CASE GetterChecked
  BY <1>0, <1>35 DEF GetterChecked
<1>36. CASE GetterGone
  BY <1>0, <1>36 DEF GetterGone, cache
<1>37. QED
  BY <1>1, <1>2, <1>3, <1>4, <1>5, <1>6, <1>7, <1>8, <1>9, <1>10, <1>11, <1>12, <1>13, <1>14, <1>15, <1>16, <1>17, <1>18, <1>19, <1>20, <1>21, <1>22, <1>23, <1>24, <1>25, <1>26, <1>27, <1>28, <1>29, <1>30, <1>31, <1>32, <1>33, <1>34, <1>35, <1>36
     DEF Next, ClientStep, LibraryStep

ConnectionData == (connected => conn) /\ (status => conn) /\ NoConnectionFault

LEMMA NextConnectionData ==
  ASSUME TypeOK, ConnectionKept, Next
  PROVE  ConnectionData'
<1> USE DEF ConnectionData, NoConnectionFault, ConnectionKept, session, cache
<1>1. ASSUME NEW f \in Api, ClientCall(f) PROVE ConnectionData'
  BY <1>1 DEF ClientCall
<1>2. CASE CallbackReturn
  BY <1>2 DEF CallbackReturn
<1>3. CASE CheckReport
  BY <1>3 DEF CheckReport
<1>4. CASE CheckResume
  BY <1>4 DEF CheckResume
<1>5. CASE Disconnect
  BY <1>5 DEF Disconnect
<1>6. CASE Disconnected
  BY <1>6 DEF Disconnected
<1>7. CASE UnlockConn
  BY <1>7 DEF UnlockConn
<1>8. CASE ConnectEntry
  BY <1>8 DEF ConnectEntry
<1>9. CASE ConnectOpen
  BY <1>9 DEF ConnectOpen
<1>10. CASE ConnectOpened
  BY <1>10 DEF ConnectOpened, Running, At
<1>11. CASE ConnectFailed
  BY <1>11 DEF ConnectFailed
<1>12. CASE ConnectAllowed
  BY <1>12 DEF ConnectAllowed
<1>13. CASE ConnectAuth
  BY <1>13 DEF ConnectAuth
<1>14. CASE ConnectAnnounce
  BY <1>14 DEF ConnectAnnounce
<1>15. CASE ConnectDone
  BY <1>15 DEF ConnectDone
<1>16. CASE Refuse
  BY <1>16 DEF Refuse
<1>17. CASE Command
  BY <1>17 DEF Command, Enter, Exchange
<1>18. CASE AllowedCommands
  BY <1>18 DEF AllowedCommands, Enter, Exchange
<1>19. CASE UpdateOutputs
  BY <1>19 DEF UpdateOutputs, Enter, Exchange
<1>20. CASE SetTimeout
  BY <1>20 DEF SetTimeout, Enter
<1>21. CASE Pause
  BY <1>21 DEF Pause, Enter, Exchange
<1>22. CASE StatusUpdate
  BY <1>22 DEF StatusUpdate, Enter, Exchange
<1>23. CASE StatsUpdate
  BY <1>23 DEF StatsUpdate, Enter, Exchange
<1>24. CASE SectionReturn
  BY <1>24 DEF SectionReturn
<1>25. CASE SetDone
  BY <1>25 DEF SetDone, QueueUpdate
<1>26. CASE SetVolumeDone
  BY <1>26 DEF SetVolumeDone, QueueUpdate
<1>27. CASE ControlDone
  BY <1>27 DEF ControlDone
<1>28. CASE SendPasswordNext
  BY <1>28 DEF SendPasswordNext
<1>29. CASE SendPasswordReturn
  BY <1>29 DEF SendPasswordReturn
<1>30. CASE StatusFailed
  BY <1>30 DEF StatusFailed
<1>31. CASE StatusDiff
  BY <1>31 DEF StatusDiff, Exchange, Running, At
<1>32. CASE StatusOutputs
  BY <1>32 DEF StatusOutputs, Exchange
<1>33. CASE StatusGone
  BY <1>33 DEF StatusGone
<1>34. CASE StatusNotify
  BY <1>34 DEF StatusNotify
<1>35. CASE StatusDone
  BY <1>35 DEF StatusDone
<1>36. CASE GetterEntry
  BY <1>36 DEF GetterEntry
<1>37. CASE GetterChecked
  BY <1>37 DEF GetterChecked
<1>38. CASE GetterGone
  BY <1>38 DEF GetterGone
<1>39. CASE Crashed
  BY <1>39 DEF Crashed, vars
<1>40. QED
  BY <1>1, <1>2, <1>3, <1>4, <1>5, <1>6, <1>7, <1>8, <1>9, <1>10, <1>11, <1>12, <1>13, <1>14, <1>15, <1>16, <1>17, <1>18, <1>19, <1>20, <1>21, <1>22, <1>23, <1>24, <1>25, <1>26, <1>27, <1>28, <1>29, <1>30, <1>31, <1>32, <1>33, <1>34, <1>35, <1>36, <1>37, <1>38, <1>39
     DEF Next, ClientStep, LibraryStep

LEMMA ConnectionStep ==
  ASSUME TypeInv, StackShape, ConnectionKept, Next
  PROVE  ConnectionKept'
<1>0. StackOK /\ Bottom /\ ConnectionData'
  BY NextConnectionData, TypeSplit DEF TypeInv
<1>1. CASE ConnectOpen
  <2>1. Top' = At("connect", "opened")
    BY <1>0, <1>1, GotoTop DEF ConnectOpen, Running, At, Label
  <2>2. conn' /\ error' # "ack"
    BY <1>1 DEF ConnectOpen
  <2>3. QED BY <1>0, <2>1, <2>2 DEF ConnectionKept, ConnectionData, NoConnectionFault, At
<1>2. CASE UnlockConn
  <2>1. Top'.at # "opened" /\ (Top'.at = "unlocked" /\ ret' = "ok" => conn')
    <3>1. CASE lock /\ conn /\ error # "none"
      BY <1>0, <1>2, <3>1, CallTop DEF UnlockConn, CheckError, Function, Label, At
    <3>2. CASE ~(lock /\ conn /\ error # "none")
      <4>1. Goto("unlocked") /\ (ret' = "ok" => conn')
        BY <1>2, <3>2 DEF UnlockConn, CheckError
      <4>2. QED BY <1>0, <4>1, GotoTop DEF At, Label
    <3>3. QED BY <3>1, <3>2
  <2>2. QED BY <1>0, <2>1 DEF ConnectionKept, ConnectionData, NoConnectionFault
<1>3. CASE Crashed
  BY <1>3 DEF Crashed, ConnectionKept, NoConnectionFault, Top, vars, session, cache, stack
<1>4. CASE ~ConnectOpen /\ ~UnlockConn /\ ~Crashed
  <2>1. QuietTop'
    BY <1>0, <1>4, NextQuiet, QuietStepTop DEF TypeInv
  <2>2. QED BY <1>0, <2>1 DEF ConnectionKept, ConnectionData, NoConnectionFault, QuietTop
<1>5. QED BY <1>1, <1>2, <1>3, <1>4
-----------------------------------------------------------------------------
(* The lock. *)

(* Every other action leaves lock and connected alone, and the frames that *)
(* hold the lock where they are.                                           *)
PlainTop ==
  /\ UNCHANGED <<connected, lock>>
  /\ Top.at \notin {"locked", "opened"}
  /\ Top.fn # "check"
  /\ Top # At("disconnect", "entry")

LEMMA NextPlain ==
  ASSUME TypeOK, StackShape, Next, ~Acquire,
         ~CheckReport, ~CheckResume, ~Disconnect, ~UnlockConn, ~ConnectOpen, ~ConnectOpened, ~Crashed
  PROVE  PlainTop
<1> USE DEF PlainTop, Running, At, session
<1>1. ASSUME NEW f \in Api, ClientCall(f) PROVE PlainTop
  <2>1. Top.at = "entry"
    BY <1>1, MaxDepthAssumption DEF ClientCall, StackShape, Top, TypeOK
  <2>2. QED BY <1>1, <2>1 DEF ClientCall, Client, Callbacks
<1>2. CASE CallbackReturn
  <2>1. Top.at = "entry"
    BY <1>2, MaxDepthAssumption DEF CallbackReturn, StackShape, Top, TypeOK, Client
  <2>2. QED BY <1>2, <2>1 DEF CallbackReturn, Callbacks
<1>3. CASE Disconnected
  BY <1>3 DEF Disconnected
<1>4. CASE ConnectEntry
  BY <1>4 DEF ConnectEntry
<1>5. CASE ConnectFailed
  BY <1>5 DEF ConnectFailed
<1>6. CASE ConnectAllowed
  BY <1>6 DEF ConnectAllowed
<1>7. CASE ConnectAuth
  BY <1>7 DEF ConnectAuth
<1>8. CASE ConnectAnnounce
  BY <1>8 DEF ConnectAnnounce
<1>9. CASE ConnectDone
  BY <1>9 DEF ConnectDone
<1>10. CASE Refuse
  BY <1>10 DEF Refuse, Sections
<1>11. CASE SectionReturn
  BY <1>11 DEF SectionReturn, Sections
<1>12. CASE SetDone
  BY <1>12 DEF SetDone
<1>13. CASE SetVolumeDone
  BY <1>13 DEF SetVolumeDone
<1>14. CASE ControlDone
  BY <1>14 DEF ControlDone
<1>15. CASE SendPasswordNext
  BY <1>15 DEF SendPasswordNext
<1>16. CASE SendPasswordReturn
  BY <1>16 DEF SendPasswordReturn
<1>17. CASE StatusFailed
  BY <1>17 DEF StatusFailed
<1>18. CASE StatusDiff
  BY <1>18 DEF StatusDiff
<1>19. CASE StatusOutputs
  BY <1>19 DEF StatusOutputs
<1>20. CASE StatusGone
  BY <1>20 DEF StatusGone
<1>21. CASE StatusNotify
  BY <1>21 DEF StatusNotify
<1>22. CASE StatusDone
  BY <1>22 DEF StatusDone
<1>23. CASE GetterEntry
  BY <1>23 DEF GetterEntry
<1>24. CASE GetterChecked
  BY <1>24 DEF GetterChecked
<1>25. CASE GetterGone
  BY <1>25 DEF GetterGone
<1>26. QED
  BY <1>1, <1>2, <1>3, <1>4, <1>5, <1>6, <1>7, <1>8, <1>9, <1>10, <1>11, <1>12, <1>13, <1>14, <1>15, <1>16, <1>17, <1>18, <1>19, <1>20, <1>21, <1>22, <1>23, <1>24, <1>25
     DEF Next, ClientStep, LibraryStep, Acquire

LEMMA BelowKept ==
  ASSUME StackOK, Bottom, StackShape, StackStep
  PROVE  /\ depth' \in Nat /\ depth' >= depth - 1
         /\ \A j \in 1..depth : j < depth => frame'[j] = frame[j]
<1>0. depth \in 1..MaxDepth /\ MaxDepth \in Nat
  BY MaxDepthAssumption DEF StackOK
<1>1. CASE GotoStep
  BY <1>0, <1>1, GotoTop DEF GotoStep
<1>2. CASE CallStep
  <2>. PICK f \in Function, a \in Label : CallThen(f, a)
    BY <1>2 DEF CallStep
  <2>1. QED BY <1>0, CallTop
<1>3. CASE BecomeStep
  <2>. PICK f \in Function : Become(f)
    BY <1>3 DEF BecomeStep
  <2>1. QED BY <1>0, BecomeTop
<1>4. CASE ReturnStep
  <2>. PICK r \in {"ok", "error"} : Return(r)
    BY <1>4 DEF ReturnStep
  <2>1. Top.fn # "app"
    BY <1>4 DEF ReturnStep
  <2>2. QED BY <1>0, <2>1, ReturnTop
<1>5. CASE UNCHANGED <<session, depth, frame>>
  BY <1>0, <1>5
<1>6. QED BY <1>1, <1>2, <1>3, <1>4, <1>5 DEF StackStep

LEMMA PlainLock ==
  ASSUME StackOK, Bottom, StackShape, PlainTop, StackStep,
         NEW b \in Nat, HeldAbove(b)
  PROVE  HeldAbove(b)'
<1>0. depth \in 1..MaxDepth /\ MaxDepth \in Nat
  BY MaxDepthAssumption DEF StackOK
<1> SUFFICES ASSUME connected, lock PROVE \E i \in b + 1..depth' : Holds(i)'
  BY DEF HeldAbove, PlainTop
<1>1. PICK i \in b + 1..depth : Holds(i)
  BY DEF HeldAbove, PlainTop
<1>2. i # depth
  BY <1>0, <1>1 DEF Holds, PlainTop, Top, At
<1>3. /\ i < depth /\ i + 1 \in 1..depth /\ i \in b + 1..depth'
      /\ frame'[i] = frame[i]
  BY <1>0, <1>2, BelowKept
<1>4. CASE frame[i].at \in {"locked", "opened"}
  BY <1>3, <1>4 DEF Holds
<1>5. CASE frame[i].at \notin {"locked", "opened"}
  <2>1. /\ frame[i] = At("connect", "failed")
        /\ frame[i + 1] \in {At("check", "entry"), At("check", "fatal")}
    BY <1>1, <1>5 DEF Holds
  <2>2. i + 1 # depth
    BY <2>1 DEF PlainTop, Top, At
  <2>3. i + 1 < depth /\ i < depth' /\ frame'[i + 1] = frame[i + 1]
    BY <1>0, <1>3, <2>2, BelowKept
  <2>4. QED BY <1>3, <2>1, <2>3 DEF Holds
<1>6. QED BY <1>4, <1>5

(* Taking the lock makes the running frame its owner. *)
LEMMA AcquireLock ==
  ASSUME StackOK, Acquire, NEW b \in Nat, b < depth
  PROVE  HeldAbove(b)'
<1>0. depth \in 1..MaxDepth
  BY DEF StackOK
<1>1. frame'[depth].at = "locked" /\ depth' = depth
  <2>1. Goto("locked")
    BY DEF Acquire, Command, AllowedCommands, UpdateOutputs, SetTimeout, Pause,
           StatusUpdate, StatsUpdate
  <2>2. QED BY <1>0, <2>1 DEF Goto, At, StackOK
<1>2. depth \in b + 1..depth'
  BY <1>0, <1>1, MaxDepthAssumption
<1>3. QED BY <1>1, <1>2 DEF HeldAbove, Holds

(* A connection that failed for good is closed by mpd_disconnect, and its  *)
(* owner of the lock is known until then.                                  *)
LEMMA CheckLock ==
  ASSUME StackOK, Bottom, StackShape, FailsForGood, CheckReport \/ CheckResume,
         NEW b \in Nat, HeldAbove(b)
  PROVE  HeldAbove(b)'
<1>0. depth \in 1..MaxDepth /\ MaxDepth \in Nat
  BY MaxDepthAssumption DEF StackOK
<1>1. Top.fn = "check" /\ Top.at \notin {"locked", "opened"} /\ Top # At("disconnect", "entry")
      /\ UNCHANGED <<connected, lock>>
  BY DEF CheckReport, CheckResume, Running, At, session
<1>2. StackStep
  BY DEF CheckReport, CheckResume, StackStep, CallStep, ReturnStep, Running, At,
         Client, Callbacks, Label, Function, Api
<1> SUFFICES ASSUME connected, lock
             PROVE  Top' = At("disconnect", "entry") \/ \E i \in b + 1..depth' : Holds(i)'
  BY <1>1 DEF HeldAbove
<1>3. PICK i \in b + 1..depth : Holds(i)
  BY <1>1 DEF HeldAbove
<1>4. i # depth
  BY <1>0, <1>1, <1>3 DEF Holds, Top, At
<1>5. /\ i < depth /\ i + 1 \in 1..depth /\ i \in b + 1..depth'
      /\ frame'[i] = frame[i]
  BY <1>0, <1>2, <1>4, BelowKept
<1>6. CASE frame[i].at \in {"locked", "opened"}
  BY <1>5, <1>6 DEF Holds
<1>7. CASE frame[i].at \notin {"locked", "opened"}
  <2>1. /\ frame[i] = At("connect", "failed")
        /\ frame[i + 1] \in {At("check", "entry"), At("check", "fatal")}
    BY <1>3, <1>7 DEF Holds
  <2>2. CASE i + 1 # depth
    <3>1. i + 1 < depth /\ i < depth' /\ frame'[i + 1] = frame[i + 1]
      BY <1>0, <1>2, <1>5, <2>2, BelowKept
    <3>2. QED BY <1>5, <2>1, <3>1 DEF Holds
  <2>3. CASE i + 1 = depth
    <3>0. i = depth - 1 /\ depth > 1
      BY <1>0, <1>5, <2>3
    <3>1. CASE Top = At("check", "entry")
      <4>1. error # "ack"
        BY <2>1, <3>0, <3>1 DEF FailsForGood
      <4>2. CallThen("onError", "fatal")
        BY <3>1, <4>1 DEF CheckReport, CheckResume, Running, At
      <4>3. frame'[depth] = At("check", "fatal") /\ depth' = depth + 1
        BY <1>1, <4>2, CallTop DEF Function, Client, Callbacks, Label
      <4>4. QED BY <1>0, <1>5, <2>1, <2>3, <4>3 DEF Holds
    <3>2. CASE Top = At("check", "fatal")
      <4>1. CallThen("disconnect", "disconnecting")
        BY <3>2 DEF CheckReport, CheckResume, Running, At
      <4>2. Top' = At("disconnect", "entry")
        BY <4>1, CallTop DEF Function, Api, Label
      <4>3. QED BY <4>2
    <3>3. QED BY <2>1, <2>3, <3>1, <3>2 DEF Top
  <2>4. QED BY <2>2, <2>3
<1>8. QED BY <1>6, <1>7

(* Below the running frame nothing changes: what is free of the lock up to *)
(* frame b stays so.                                                       *)
LEMMA HeldStep ==
  ASSUME TypeInv, StackShape, ConnectionKept, FailsForGood, Next,
         NEW b \in Nat, b < depth, HeldAbove(b)
  PROVE  HeldAbove(b)'
<1>0. StackOK /\ Bottom /\ StackStep
  BY NextStackStep, TypeSplit DEF TypeInv
<1>1. CASE Disconnect \/ UnlockConn
  BY <1>1 DEF Disconnect, UnlockConn, HeldAbove
<1>2. CASE ConnectOpen
  <2>1. frame'[depth].at = "opened" /\ depth' = depth
    BY <1>0, <1>2 DEF ConnectOpen, Goto, At, StackOK
  <2>2. depth \in b + 1..depth'
    BY <1>0, <2>1, MaxDepthAssumption DEF StackOK
  <2>3. QED BY <2>1, <2>2 DEF HeldAbove, Holds
<1>3. CASE ConnectOpened
  <2>1. CASE error = "none"
    BY <1>3, <2>1 DEF ConnectOpened, HeldAbove
  <2>2. CASE error # "none"
    <3>1. CallThen("check", "failed") /\ Top.fn = "connect"
      BY <1>3, <2>2 DEF ConnectOpened, Running, At
    <3>2. /\ frame'[depth] = At("connect", "failed")
          /\ frame'[depth + 1] = At("check", "entry")
          /\ depth' = depth + 1
      BY <1>0, <3>1, CallTop DEF Function, Label, Top
    <3>3. depth \in b + 1..depth' /\ depth < depth'
      BY <1>0, <3>2, MaxDepthAssumption DEF StackOK
    <3>4. \A i \in b + 1..depth' : i = depth => Holds(i)'
      BY <3>2, <3>3 DEF Holds
    <3>5. \E i \in b + 1..depth' : Holds(i)'
      BY <3>3, <3>4
    <3>6. QED BY <3>5 DEF HeldAbove
  <2>3. QED BY <2>1, <2>2
<1>4. CASE Acquire
  BY <1>0, <1>4, AcquireLock
<1>5. CASE CheckReport \/ CheckResume
  BY <1>0, <1>5, CheckLock
<1>6. CASE Crashed
  BY <1>6 DEF Crashed, HeldAbove, Holds, Top, vars, session, stack
<1>7. CASE ~Acquire /\ ~CheckReport /\ ~CheckResume /\ ~Disconnect /\ ~UnlockConn
           /\ ~ConnectOpen /\ ~ConnectOpened /\ ~Crashed
  <2>1. PlainTop
    BY <1>7, NextPlain DEF TypeInv
  <2>2. QED BY <1>0, <2>1, PlainLock
<1>8. QED BY <1>1, <1>2, <1>3, <1>4, <1>5, <1>6, <1>7

LEMMA LockStep ==
  ASSUME TypeInv, StackShape, ConnectionKept, FailsForGood, LockHasOwner, Next
  PROVE  LockHasOwner'
<1>1. depth \in Nat /\ 0 < depth
  BY MaxDepthAssumption DEF TypeInv, TypeOK
<1>2. QED BY <1>1, HeldStep DEF LockHasOwner

(* mpd_connect_real is the only caller that gives up on "failed", and the  *)
(* welcome line is never an ACK.                                           *)
LEMMA FailsStep ==
  ASSUME TypeInv, StackShape, ConnectionKept, FailsForGood, Next
  PROVE  FailsForGood'
<1>0. StackOK /\ Bottom /\ StackStep /\ depth \in 1..MaxDepth /\ MaxDepth \in Nat
  BY NextStackStep, TypeSplit, MaxDepthAssumption DEF TypeInv, StackOK
<1>1. CASE GotoStep
  <2>. PICK a \in Label \ {"entry"} : Goto(a)
    BY <1>1 DEF GotoStep
  <2>1. Top' = At(Top.fn, a)
    BY <1>0, GotoTop
  <2>2. QED BY <2>1 DEF FailsForGood, At
<1>2. CASE CallStep
  <2>. PICK f \in Function, a \in Label :
         CallThen(f, a) /\ (f = "check" => a = "unlocked" \/ ConnectOpened)
    BY <1>2 DEF CallStep
  <2>1. /\ Top' = At(f, "entry")
        /\ depth' - 1 = depth
        /\ frame'[depth] = At(Top.fn, a)
    BY <1>0, CallTop
  <2>2. CASE f # "check" \/ a = "unlocked"
    BY <2>1, <2>2 DEF FailsForGood, At
  <2>3. CASE ConnectOpened
    BY <2>3 DEF ConnectOpened, ConnectionKept, FailsForGood, Running, At
  <2>4. QED BY <2>2, <2>3
<1>3. CASE BecomeStep
  <2>. PICK f \in Function \ {"app", "check"} : Become(f)
    BY <1>3 DEF BecomeStep
  <2>1. Top' = At(f, "entry")
    BY <1>0, BecomeTop
  <2>2. QED BY <2>1 DEF FailsForGood, At
<1>4. CASE ReturnStep
  <2>1. Top'.at = "entry" => Top'.fn \in Client
    BY <1>0, <1>4, ReturnTop DEF ReturnStep
  <2>2. QED BY <2>1 DEF FailsForGood, At, Client, Callbacks
<1>5. CASE UNCHANGED <<session, depth, frame>>
  BY <1>5 DEF FailsForGood, Top, session
<1>6. QED BY <1>0, <1>1, <1>2, <1>3, <1>4, <1>5 DEF StackStep
-----------------------------------------------------------------------------
(* What the free lock rests on. *)

(* Actions that leave the connection, its error and the lock alone; a      *)
(* status can only be dropped.                                             *)
Silent == UNCHANGED <<connected, conn, error, lock>> /\ (status' => status)

LEMMA NextSilent ==
  ASSUME Next, ~Acquire, ~CheckReport, ~Disconnect, ~UnlockConn,
         ~ConnectOpen, ~ConnectOpened, ~StatusDiff, ~StatusOutputs
  PROVE  Silent
<1> USE DEF Silent, session, cache, stack
<1>1. ASSUME NEW f \in Api, ClientCall(f) PROVE Silent
  BY <1>1 DEF ClientCall
<1>2. CASE CallbackReturn
  BY <1>2 DEF CallbackReturn
<1>3. CASE CheckResume
  BY <1>3 DEF CheckResume
<1>4. CASE Disconnected
  BY <1>4 DEF Disconnected
<1>5. CASE ConnectEntry
  BY <1>5 DEF ConnectEntry
<1>6. CASE ConnectFailed
  BY <1>6 DEF ConnectFailed
<1>7. CASE ConnectAllowed
  BY <1>7 DEF ConnectAllowed
<1>8. CASE ConnectAuth
  BY <1>8 DEF ConnectAuth
<1>9. CASE ConnectAnnounce
  BY <1>9 DEF ConnectAnnounce
<1>10. CASE ConnectDone
  BY <1>10 DEF ConnectDone
<1>11. CASE Refuse
  BY <1>11 DEF Refuse
<1>12. CASE SectionReturn
  BY <1>12 DEF SectionReturn
<1>13. CASE SetDone
  BY <1>13 DEF SetDone, QueueUpdate
<1>14. CASE SetVolumeDone
  BY <1>14 DEF SetVolumeDone, QueueUpdate
<1>15. CASE ControlDone
  BY <1>15 DEF ControlDone
<1>16. CASE SendPasswordNext
  BY <1>16 DEF SendPasswordNext
<1>17. CASE SendPasswordReturn
  BY <1>17 DEF SendPasswordReturn
<1>18. CASE StatusFailed
  BY <1>18 DEF StatusFailed
<1>19. CASE StatusGone
  BY <1>19 DEF StatusGone
<1>20. CASE StatusNotify
  BY <1>20 DEF StatusNotify
<1>21. CASE StatusDone
  BY <1>21 DEF StatusDone
<1>22. CASE GetterEntry
  BY <1>22 DEF GetterEntry
<1>23. CASE GetterChecked
  BY <1>23 DEF GetterChecked
<1>24. CASE GetterGone
  BY <1>24 DEF GetterGone
<1>25. CASE Crashed
  BY <1>25 DEF Crashed, vars
<1>26. QED
  BY <1>1, <1>2, <1>3, <1>4, <1>5, <1>6, <1>7, <1>8, <1>9, <1>10, <1>11, <1>12, <1>13, <1>14, <1>15, <1>16, <1>17, <1>18, <1>19, <1>20, <1>21, <1>22, <1>23, <1>24, <1>25
     DEF Next, ClientStep, LibraryStep, Acquire

(* A status is only there while connected; a connection without "connected" *)
(* has just been opened, or has failed for good.                            *)
LockData ==
  /\ status => connected
  /\ conn /\ ~connected => error = "fatal" \/ Top = At("connect", "opened")

LEMMA LockDataStep ==
  ASSUME TypeInv, StackShape, ConnectionKept, LockGiven, Next
  PROVE  LockData'
<1>0. /\ StackOK /\ DataOK /\ (status => connected)
      /\ conn /\ ~connected => error = "fatal" \/ Top = At("connect", "opened")
  BY TypeSplit DEF TypeInv, LockGiven
<1> USE DEF LockData, session, cache
<1>1. CASE Acquire
  <2>1. connected /\ UNCHANGED connected
    BY <1>0, <1>1 DEF Acquire, Command, AllowedCommands, UpdateOutputs, SetTimeout, Pause,
         StatusUpdate, StatsUpdate, Enter, Exchange
  <2>2. QED BY <2>1
<1>2. CASE StatusDiff
  <2>1. connected
    BY <1>2 DEF StatusDiff, LockGiven, Running, At
  <2>2. connected' = connected /\ status' = status
    BY <1>0, <1>2 DEF StatusDiff, Exchange
  <2>3. QED BY <2>1, <2>2
<1>3. CASE StatusOutputs
  <2>1. connected
    BY <1>0, <1>3 DEF StatusOutputs
  <2>2. connected' = connected /\ status' = status
    BY <1>0, <1>3 DEF StatusOutputs, Exchange
  <2>3. QED BY <2>1, <2>2
<1>4. CASE CheckReport
  <2>1. Top.fn = "check" /\ UNCHANGED <<connected, conn, status, fault>> /\ error' \in {"none", error}
        /\ (error' # error => error = "ack")
    BY <1>4 DEF CheckReport, Running, At
  <2>2. QED BY <1>0, <2>1 DEF At
<1>5. CASE Disconnect
  BY <1>0, <1>5 DEF Disconnect
<1>6. CASE UnlockConn
  <2>1. UNCHANGED <<connected, conn, error, status, fault>> /\ Top.at = "locked"
    BY <1>6 DEF UnlockConn
  <2>2. QED BY <1>0, <2>1 DEF At
<1>7. CASE ConnectOpen
  <2>1. Top' = At("connect", "opened")
    BY <1>0, <1>7, GotoTop DEF ConnectOpen, Running, At, Label
  <2>2. UNCHANGED <<connected, status, fault>>
    BY <1>7 DEF ConnectOpen
  <2>3. QED BY <1>0, <2>1, <2>2 DEF At
<1>8. CASE ConnectOpened
  <2>1. CASE error = "none"
    BY <1>0, <1>8, <2>1 DEF ConnectOpened
  <2>2. CASE error # "none"
    <3>1. error = "fatal"
      BY <1>0, <1>8, <2>2 DEF ConnectOpened, ConnectionKept, Running, At, DataOK, ErrorClass
    <3>2. UNCHANGED <<connected, conn, error, status, fault>>
      BY <1>8, <2>2 DEF ConnectOpened
    <3>3. QED BY <1>0, <3>1, <3>2
  <2>3. QED BY <2>1, <2>2
<1>9. CASE ~Acquire /\ ~CheckReport /\ ~Disconnect /\ ~UnlockConn /\ ~ConnectOpen
           /\ ~ConnectOpened /\ ~StatusDiff /\ ~StatusOutputs
  <2>1. Silent
    BY <1>9, NextSilent
  <2>2. Top = At("connect", "opened") => Top' = Top
    <3>1. CASE Crashed
      BY <3>1 DEF Crashed, vars, stack, Top, At
    <3>2. CASE CheckResume
      BY <3>2 DEF CheckResume, Running, At
    <3>3. CASE ~Crashed /\ ~CheckResume
      BY <1>9, <3>3, NextPlain DEF PlainTop, TypeInv, At
    <3>4. QED BY <3>1, <3>2, <3>3
  <2>3. QED BY <1>0, <2>1, <2>2 DEF Silent
<1>10. QED BY <1>1, <1>2, <1>3, <1>4, <1>5, <1>6, <1>7, <1>8, <1>9

(* What holds of the running frame where it was left by a callee. *)
LockTop ==
  /\ Top = At("check", "entry") => ~lock \/ error # "ack"
  /\ Top.at = "unlocked" /\ ret = "ok" => connected /\ ~lock

LEMMA LockTopStep ==
  ASSUME TypeInv, StackShape, ConnectionKept, LockGiven, Next
  PROVE  LockTop'
<1>0. /\ StackOK /\ Bottom /\ LockTop /\ depth \in 1..MaxDepth /\ MaxDepth \in Nat
      /\ conn /\ ~connected => error = "fatal" \/ Top = At("connect", "opened")
  BY TypeSplit, MaxDepthAssumption DEF TypeInv, LockGiven, LockTop, StackOK
<1>1. CASE ConnectOpen
  BY <1>0, <1>1, GotoTop DEF ConnectOpen, Running, LockTop, At, Label
<1>2. CASE UnlockConn
  <2>0. /\ Top.fn \in Sections /\ Top.at = "locked" /\ ~lock'
        /\ UNCHANGED connected
    BY <1>2 DEF UnlockConn, cache
  <2>1. CASE lock /\ conn /\ error # "none"
    <3>1. Top' = At("check", "entry")
      BY <1>0, <1>2, <2>1, CallTop DEF UnlockConn, CheckError, Function, Label
    <3>2. QED BY <2>0, <3>1 DEF LockTop, At
  <2>2. CASE ~(lock /\ conn /\ error # "none")
    <3>1. Goto("unlocked") /\ (ret' = "ok" => lock /\ conn /\ error = "none")
      BY <1>2, <2>2 DEF UnlockConn, CheckError
    <3>2. Top' = At(Top.fn, "unlocked")
      BY <1>0, <3>1, GotoTop DEF Label
    <3>3. ret' = "ok" => connected
      BY <1>0, <2>0, <3>1 DEF At
    <3>4. QED BY <2>0, <3>2, <3>3 DEF LockTop, At
  <2>3. QED BY <2>1, <2>2
<1>3. CASE Crashed
  BY <1>0, <1>3 DEF Crashed, LockTop, Top, vars, session, cache, stack
<1>4. CASE ~ConnectOpen /\ ~UnlockConn /\ ~Crashed
  <2>0. QuietStep /\ QuietTop'
    BY <1>0, <1>4, NextQuiet, QuietStepTop DEF TypeInv
  <2>1. Top' = At("check", "entry") => ~lock' \/ error' # "ack"
    <3>1. CASE \E f \in Function, a \in Label : CallThen(f, a) /\ (f = "check" => ConnectOpened)
      <4>. PICK f \in Function, a \in Label : CallThen(f, a) /\ (f = "check" => ConnectOpened)
        BY <3>1
      <4>1. Top' = At(f, "entry")
        BY <1>0, CallTop
      <4>2. ConnectOpened => error' # "ack"
        BY DEF ConnectOpened, ConnectionKept, Running, At
      <4>3. QED BY <4>1, <4>2 DEF At
    <3>2. CASE \E f \in Function \ {"check"} : Become(f)
      <4>. PICK f \in Function \ {"check"} : Become(f)
        BY <3>2
      <4>1. Top' = At(f, "entry")
        BY <1>0, BecomeTop
      <4>2. QED BY <4>1 DEF At
    <3>3. CASE \E a \in Label \ {"entry", "opened", "unlocked", "checked"} : Goto(a)
      <4>. PICK a \in Label \ {"entry", "opened", "unlocked", "checked"} : Goto(a)
        BY <3>3
      <4>1. Top' = At(Top.fn, a)
        BY <1>0, GotoTop
      <4>2. QED BY <4>1 DEF At
    <3>4. CASE Top.fn # "app" /\ \E r \in {"ok", "error"} : Return(r)
      <4>1. Top'.at = "entry" => Top'.fn \in Client
        BY <1>0, <3>4, ReturnTop
      <4>2. QED BY <4>1 DEF At, Client, Callbacks
    <3>5. CASE UNCHANGED <<session, stack>>
      BY <1>0, <3>5 DEF LockTop, Top, session, stack
    <3>6. QED BY <2>0, <3>1, <3>2, <3>3, <3>4, <3>5 DEF QuietStep
  <2>2. QED BY <2>0, <2>1 DEF LockTop, QuietTop
<1>5. QED BY <1>1, <1>2, <1>3, <1>4

(* What holds of the frames that wait, or go on, without the lock. *)
LockFrame(i) == frame[i] = At("statusUpdate", "outputs") => HeldAbove(i)

LEMMA LockFrameStep ==
  ASSUME TypeInv, StackShape, ConnectionKept, FailsForGood, LockGiven, Next,
         NEW i \in 1..depth'
  PROVE  LockFrame(i)'
<1>0. /\ StackOK /\ Bottom /\ StackStep /\ depth \in 1..MaxDepth /\ MaxDepth \in Nat
      /\ \A k \in 1..depth : LockFrame(k)
  BY NextStackStep, TypeSplit, MaxDepthAssumption DEF TypeInv, LockGiven, LockFrame, StackOK
<1>1. CASE i < depth
  <2>1. i \in 1..depth /\ i \in Nat /\ frame'[i] = frame[i]
    BY <1>0, <1>1, BelowKept
  <2>2. HeldAbove(i) => HeldAbove(i)'
    BY <1>1, <2>1, HeldStep
  <2>3. LockFrame(i)
    BY <1>0, <2>1
  <2>4. QED BY <2>1, <2>2, <2>3 DEF LockFrame
<1>2. CASE UNCHANGED <<session, stack>>
  <2>1. i \in 1..depth /\ LockFrame(i)
    BY <1>0, <1>2 DEF stack
  <2>2. QED BY <1>2, <2>1 DEF LockFrame, HeldAbove, Holds, Top, session, stack
<1>3. CASE ~(i < depth) /\ ~UNCHANGED <<session, stack>>
  <2>1. \/ frame'[i] # At("statusUpdate", "outputs")
        \/ \E a \in Label : frame'[i] = At(Top.fn, a) /\ QuietLabel(a)
    <3>1. CASE ConnectOpen
      <4>1. Goto("opened")
        BY <3>1 DEF ConnectOpen
      <4>2. i = depth /\ frame'[depth] = At(Top.fn, "opened")
        BY <1>0, <1>3, <4>1, GotoTop DEF Top, Label
      <4>3. QED BY <4>2 DEF At
    <3>2. CASE UnlockConn
      <4>1. Goto("unlocked") \/ CallThen("check", "unlocked")
        BY <3>2 DEF UnlockConn, CheckError
      <4>2. CASE Goto("unlocked")
        <5>1. i = depth /\ frame'[depth] = At(Top.fn, "unlocked")
          BY <1>0, <1>3, <4>2, GotoTop DEF Top, Label
        <5>2. QED BY <5>1 DEF At
      <4>3. CASE CallThen("check", "unlocked")
        <5>1. /\ depth' = depth + 1 /\ frame'[depth + 1] = At("check", "entry")
              /\ frame'[depth] = At(Top.fn, "unlocked")
          BY <1>0, <4>3, CallTop DEF Top, Label, Function
        <5>2. i = depth \/ i = depth + 1
          BY <1>0, <1>3, <5>1
        <5>3. QED BY <5>1, <5>2 DEF At
      <4>4. QED BY <4>1, <4>2, <4>3
    <3>3. CASE QuietStep
      <4>1. ASSUME NEW f \in Function, NEW a \in Label, CallThen(f, a),
                   Top.fn \notin Client => QuietLabel(a)
            PROVE  \/ frame'[i] # At("statusUpdate", "outputs")
                   \/ frame'[i] = At(Top.fn, a) /\ QuietLabel(a)
        <5>1. /\ depth' = depth + 1 /\ frame'[depth + 1] = At(f, "entry")
              /\ frame'[depth] = At(Top.fn, a)
          BY <1>0, <4>1, CallTop DEF Top
        <5>2. i = depth \/ i = depth + 1
          BY <1>0, <1>3, <5>1
        <5>3. QED BY <4>1, <5>1, <5>2 DEF At, Client, Callbacks
      <4>2. ASSUME NEW f \in Function, Become(f)
            PROVE  frame'[i] # At("statusUpdate", "outputs")
        <5>1. i = depth /\ frame'[depth] = At(f, "entry")
          BY <1>0, <1>3, <4>2, BecomeTop DEF Top
        <5>2. QED BY <5>1 DEF At
      <4>3. ASSUME NEW a \in Label, Goto(a), QuietLabel(a)
            PROVE  frame'[i] = At(Top.fn, a) /\ QuietLabel(a)
        BY <1>0, <1>3, <4>3, GotoTop DEF Top
      <4>4. ASSUME NEW r, Return(r), Top.fn # "app" PROVE FALSE
        BY <1>0, <1>3, <4>4, ReturnTop DEF TypeInv
      <4>5. QED
        <5>1. CASE \E f \in Function, a \in Label :
                     CallThen(f, a) /\ (Top.fn \notin Client => QuietLabel(a))
          BY <4>1, <5>1
        <5>2. CASE \E f \in Function : Become(f)
          BY <4>2, <5>2
        <5>3. CASE \E a \in Label : Goto(a) /\ QuietLabel(a)
          BY <4>3, <5>3
        <5>4. CASE Top.fn # "app" /\ \E r \in {"ok", "error"} : Return(r)
          BY <4>4, <5>4
        <5>5. QED BY <1>3, <3>3, <5>1, <5>2, <5>3, <5>4 DEF QuietStep
    <3>4. ~Crashed
      BY <1>3 DEF Crashed, vars
    <3>5. QED BY <3>1, <3>2, <3>3, <3>4, NextQuiet DEF TypeInv
  <2>2. StatusDiff => ~lock'
    BY DEF StatusDiff, LockGiven, Running, At
  <2>3. ASSUME frame'[i] = At("statusUpdate", "outputs") PROVE HeldAbove(i)'
    <3>1. PICK a \in Label : frame'[i] = At(Top.fn, a) /\ QuietLabel(a)
      BY <2>1, <2>3
    <3>2. Top.fn = "statusUpdate" /\ a = "outputs"
      BY <2>3, <3>1 DEF At
    <3>3. StatusDiff
      BY <3>1, <3>2 DEF QuietLabel
    <3>4. QED BY <2>2, <3>3 DEF HeldAbove
  <2>4. QED BY <2>3 DEF LockFrame
<1>4. QED BY <1>1, <1>2, <1>3
-----------------------------------------------------------------------------
(* The invariant. *)

LEMMA SessionInit == Init => SessionInv
<1> SUFFICES ASSUME Init PROVE SessionInv
  OBVIOUS
<1>1. TypeOK /\ Bottom
  BY TypeInit DEF TypeInv
<1>2. Top = At("app", "entry") /\ frame[1] = At("app", "entry") /\ depth = 1
  BY <1>1 DEF Init, Bottom, Top
<1>3. StackShape
  BY <1>2 DEF StackShape, At
<1>4. ConnectionKept /\ FailsForGood /\ LockHasOwner
  BY <1>2 DEF Init, At, ConnectionKept, NoConnectionFault, FailsForGood, LockHasOwner, HeldAbove
<1>5. LockGiven
  BY <1>2 DEF Init, At, LockGiven
<1>6. QED BY <1>1, <1>3, <1>4, <1>5 DEF SessionInv

LEMMA SessionStep == SessionInv /\ [Next]_vars => SessionInv'
<1> SUFFICES ASSUME SessionInv, [Next]_vars PROVE SessionInv'
  OBVIOUS
<1> USE DEF SessionInv
<1>1. CASE Next
  <2>1. TypeOK' /\ Bottom'
    BY <1>1, TypeStep DEF TypeInv
  <2>2. StackShape'
    BY <1>1, NextStackStep, ShapeStep, TypeSplit
  <2>3. ConnectionKept'
    BY <1>1, ConnectionStep DEF TypeInv
  <2>4. FailsForGood'
    BY <1>1, FailsStep DEF TypeInv
  <2>5. LockHasOwner'
    BY <1>1, LockStep DEF TypeInv
  <2>6. LockGiven'
    <3>1. TypeInv
      BY DEF TypeInv
    <3>2. LockData'
      BY <1>1, <3>1, LockDataStep
    <3>3. LockTop'
      BY <1>1, <3>1, LockTopStep
    <3>4. \A i \in 1..depth' : LockFrame(i)'
      BY <1>1, <3>1, LockFrameStep
    <3>5. QED BY <3>2, <3>3, <3>4 DEF LockGiven, LockData, LockTop, LockFrame
  <2>7. QED BY <2>1, <2>2, <2>3, <2>4, <2>5, <2>6
<1>2. CASE UNCHANGED vars
  <2>1. TypeOK' /\ Bottom'
    BY <1>2, TypeStep DEF TypeInv
  <2>2. StackShape' /\ ConnectionKept' /\ FailsForGood'
    BY <1>2 DEF StackShape, ConnectionKept, NoConnectionFault, FailsForGood,
         Top, vars, session, cache, stack
  <2>3. \A i : HeldAbove(i)' <=> HeldAbove(i)
    BY <1>2 DEF HeldAbove, Holds, Top, vars, session, stack
  <2>4. LockHasOwner'
    BY <2>3 DEF LockHasOwner
  <2>5. LockGiven'
    BY <1>2, <2>3 DEF LockGiven, Top, vars, session, cache, stack
  <2>6. QED BY <2>1, <2>2, <2>4, <2>5
<1>3. QED BY <1>1, <1>2

(* While connected, a lock that is held is held for a function that is     *)
(* still on the call stack (mpd_lock_conn, mpd_unlock_conn,                *)
(* mpd_disconnect), for every client and every depth of reentrancy.        *)
THEOREM SessionCorrect == Spec => []SessionInv
<1>1. QED BY SessionInit, SessionStep, PTL DEF Spec

(* Whatever the callbacks do, mpd_unlock_conn or mpd_disconnect has been   *)
(* reached before the main loop runs again: a connected client is never    *)
(* left with the connection locked.                                        *)
THEOREM LockReleased == Spec => []NoLockLeak
<1>1. SessionInv => NoLockLeak
  <2> SUFFICES ASSUME SessionInv, depth = 1, connected, lock PROVE FALSE
    BY DEF NoLockLeak
  <2>1. Top = At("app", "entry") /\ frame[1] = At("app", "entry")
    BY DEF SessionInv, Bottom, Top
  <2>2. PICK i \in 0 + 1..1 : Holds(i)
    BY <2>1 DEF SessionInv, LockHasOwner, HeldAbove, At
  <2>3. QED BY <2>1, <2>2 DEF Holds, At
<1>2. QED BY <1>1, SessionCorrect, PTL

(* No command is written to mi->connection after mpd_disconnect closed it, *)
(* although mpd_status_update goes on sending commands outside the lock.   *)
THEOREM ConnectionThere == Spec => []NoConnectionFault
<1>1. SessionInv => NoConnectionFault
  BY DEF SessionInv, ConnectionKept
<1>2. QED BY <1>1, SessionCorrect, PTL

(* The commands that mpd_status_update sends without the lock never get in *)
(* the way of a section that is still on the call stack, for every client  *)
(* and every depth of reentrancy.                                          *)
THEOREM CommandsAlone == Spec => []CommandsDoNotCompete
<1>1. SessionInv => CommandsDoNotCompete
  <2> SUFFICES ASSUME SessionInv, lock,
                      \/ Top = At("statusUpdate", "unlocked") /\ ret = "ok"
                      \/ Top = At("statusUpdate", "outputs") /\ status
               PROVE  FALSE
    BY DEF CommandsDoNotCompete
  <2>1. CASE Top = At("statusUpdate", "unlocked") /\ ret = "ok"
    BY <2>1 DEF SessionInv, LockGiven, At
  <2>2. CASE Top = At("statusUpdate", "outputs") /\ status
    <3>1. depth \in 1..depth /\ connected
      BY <2>2, MaxDepthAssumption DEF SessionInv, TypeOK, LockGiven
    <3>2. HeldAbove(depth)
      BY <2>2, <3>1 DEF SessionInv, LockGiven, Top
    <3>3. QED BY <2>2, <3>1, <3>2 DEF HeldAbove, At
  <2>3. QED BY <2>1, <2>2
<1>2. QED BY <1>1, SessionCorrect, PTL
=============================================================================
