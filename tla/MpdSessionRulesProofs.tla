------------------------ MODULE MpdSessionRulesProofs ------------------------
(***************************************************************************)
(* What a client can rely on whose callbacks keep to some rules: a getter  *)
(* that was told MPD_OK has a status to read, and a connection is opened   *)
(* only after the last one is closed.                                      *)
(***************************************************************************)
EXTENDS MpdSessionProofs

ForApp == {"connect", "set", "setVolume", "control", "pause"}
Later  == {"outputs", "notify", "notified"}

-----------------------------------------------------------------------------
(* What a step may do to the call stack, as far as the rules are concerned: *)
(* who calls these functions, which frame goes on to which label, and what *)
(* mpd_status_update returns.                                              *)

Resumes(a) ==
  /\ Top.fn = "connect" /\ a = "open" => ConnectEntry
  /\ Top.fn = "statusUpdate" /\ a \in Later => StatusDiff \/ StatusOutputs \/ StatusNotify
  /\ Top.fn = "statusUpdate" /\ a = "locked" => StatusUpdate

CareCall(f, a) ==
  /\ CallThen(f, a)
  /\ f \in ForApp => Top.fn \in Client /\ f \in Calls[Top.fn]
  /\ f = "statusUpdate" =>
       \/ Top.fn \in Client /\ f \in Calls[Top.fn]
       \/ Top.fn = "getter" /\ ~status /\ UNCHANGED status
  /\ Top.fn = "getter" => f = "statusUpdate"
  /\ Top.fn = "statusUpdate" => a # "locked"
  /\ Resumes(a)

CareBecome(f) == Become(f) /\ Top.fn \in ForApp

CareGoto(a) == Goto(a) /\ Resumes(a)

CareReturn(r) ==
  /\ Return(r)
  /\ Top.fn # "app"
  /\ Top.fn = "statusUpdate" /\ r = "ok" =>
       Top.at = "notified" /\ connected /\ UNCHANGED <<connected, status>>

CareStep ==
  \/ \E f \in Function \ {"app"}, a \in Label : CareCall(f, a)
  \/ \E f \in {"getter", "statusUpdate"} : CareBecome(f)
  \/ \E a \in Label \ {"entry", "checked"} : CareGoto(a)
  \/ \E r \in {"ok", "error"} : CareReturn(r)
  \/ UNCHANGED <<session, cache, stack>>

LEMMA NextCare ==
  ASSUME TypeOK, StackShape, Next
  PROVE  CareStep
<1> USE DEF CareStep, CareCall, CareBecome, CareGoto, CareReturn, Resumes, ForApp, Later,
            Running, At, session, cache, stack
<1>0. /\ Top.fn \in Function /\ Top.at \in Label /\ ret \in {"ok", "error"}
      /\ Top.fn \in Client => Top.at = "entry"
  BY TopType, MaxDepthAssumption DEF TypeOK, StackOK, StackShape, Top
<1>1. ASSUME NEW f \in Api, ClientCall(f) PROVE CareStep
  BY <1>0, <1>1, Names DEF ClientCall, Client, Callbacks
<1>2. CASE CallbackReturn
  BY <1>0, <1>2 DEF CallbackReturn, Callbacks
<1>3. CASE CheckReport
  BY <1>0, <1>3 DEF CheckReport, Function, Api, Sections, Client, Callbacks, Label
<1>4. CASE CheckResume
  BY <1>0, <1>4 DEF CheckResume, Function, Api, Sections, Client, Callbacks, Label
<1>5. CASE Disconnect
  BY <1>0, <1>5 DEF Disconnect, Function, Api, Sections, Client, Callbacks, Label
<1>6. CASE Disconnected
  BY <1>0, <1>6 DEF Disconnected
<1>7. CASE UnlockConn
  BY <1>0, <1>7 DEF UnlockConn, CheckError, Function, Api, Sections, Client, Callbacks, Label
<1>8. CASE ConnectEntry
  BY <1>0, <1>8 DEF ConnectEntry, Function, Api, Sections, Client, Callbacks, Label
<1>9. CASE ConnectOpen
  BY <1>0, <1>9 DEF ConnectOpen, Function, Api, Sections, Client, Callbacks, Label
<1>10. CASE ConnectOpened
  BY <1>0, <1>10 DEF ConnectOpened, Function, Api, Sections, Client, Callbacks, Label
<1>11. CASE ConnectFailed
  BY <1>0, <1>11 DEF ConnectFailed
<1>12. CASE ConnectAllowed
  BY <1>0, <1>12 DEF ConnectAllowed, Function, Api, Sections, Client, Callbacks, Label
<1>13. CASE ConnectAuth
  BY <1>0, <1>13 DEF ConnectAuth, Function, Api, Sections, Client, Callbacks, Label
<1>14. CASE ConnectAnnounce
  BY <1>0, <1>14 DEF ConnectAnnounce, Function, Api, Sections, Client, Callbacks, Label
<1>15. CASE ConnectDone
  BY <1>0, <1>15 DEF ConnectDone
<1>16. CASE Refuse
  BY <1>0, <1>16 DEF Refuse, Sections
<1>17. CASE Command
  <2>1. Top.fn \in {"sendPassword", "tagTypes", "set", "setVolume", "control"} /\ Goto("locked")
    BY <1>17 DEF Command, Enter
  <2> QED
    BY <2>1 DEF Label
<1>18. CASE AllowedCommands
  BY <1>0, <1>18 DEF AllowedCommands, Enter, Function, Api, Sections, Client, Callbacks, Label
<1>19. CASE UpdateOutputs
  BY <1>0, <1>19 DEF UpdateOutputs, Enter, Function, Api, Sections, Client, Callbacks, Label
<1>20. CASE SetTimeout
  BY <1>0, <1>20 DEF SetTimeout, Enter, Function, Api, Sections, Client, Callbacks, Label
<1>21. CASE Pause
  BY <1>0, <1>21 DEF Pause, Enter, Function, Api, Sections, Client, Callbacks, Label
<1>22. CASE StatusUpdate
  BY <1>0, <1>22 DEF StatusUpdate, Enter, Function, Api, Sections, Client, Callbacks, Label
<1>23. CASE StatsUpdate
  <2>1. /\ Top.fn \in {"statsUpdate", "statsRefresh"}
        /\ Goto("locked")
    BY <1>23 DEF StatsUpdate, Enter
  <2> QED
    BY <2>1 DEF Label, Function, Client, Callbacks
<1>24. CASE SectionReturn
  BY <1>0, <1>24 DEF SectionReturn
<1>25. CASE SetDone
  BY <1>0, <1>25 DEF SetDone
<1>26. CASE SetVolumeDone
  BY <1>0, <1>26 DEF SetVolumeDone, Function, Api, Sections, Client, Callbacks, Label
<1>27. CASE ControlDone
  BY <1>0, <1>27 DEF ControlDone, Function, Api, Sections, Client, Callbacks, Label
<1>28. CASE SendPasswordNext
  BY <1>0, <1>28 DEF SendPasswordNext, Function, Api, Sections, Client, Callbacks, Label
<1>29. CASE SendPasswordReturn
  BY <1>0, <1>29 DEF SendPasswordReturn
<1>30. CASE StatusFailed
  BY <1>0, <1>30 DEF StatusFailed
<1>31. CASE StatusDiff
  BY <1>0, <1>31 DEF StatusDiff, Function, Api, Sections, Client, Callbacks, Label
<1>32. CASE StatusOutputs
  BY <1>0, <1>32 DEF StatusOutputs, Function, Api, Sections, Client, Callbacks, Label
<1>33. CASE StatusGone
  BY <1>0, <1>33 DEF StatusGone
<1>34. CASE StatusNotify
  BY <1>0, <1>34 DEF StatusNotify, Function, Api, Sections, Client, Callbacks, Label
<1>35. CASE StatusDone
  BY <1>0, <1>35 DEF StatusDone
<1>36. CASE GetterEntry
  BY <1>0, <1>36 DEF GetterEntry, Function, Api, Sections, Client, Callbacks, Label
<1>37. CASE GetterChecked
  BY <1>0, <1>37 DEF GetterChecked
<1>38. CASE GetterGone
  BY <1>0, <1>38 DEF GetterGone
<1>39. CASE Crashed
  BY <1>0, <1>39 DEF Crashed, vars
<1> QED
  BY <1>1, <1>2, <1>3, <1>4, <1>5, <1>6, <1>7, <1>8, <1>9, <1>10, <1>11, <1>12, <1>13, <1>14,
     <1>15, <1>16, <1>17, <1>18, <1>19, <1>20, <1>21, <1>22, <1>23, <1>24, <1>25, <1>26,
     <1>27, <1>28, <1>29, <1>30, <1>31, <1>32, <1>33, <1>34, <1>35, <1>36, <1>37, <1>38,
     <1>39
     DEF Next, ClientStep, LibraryStep

(* Where that leaves the frames.                                           *)
LEMMA CallFrames ==
  ASSUME StackOK, NEW f \in Function, NEW a \in Label, CallThen(f, a)
  PROVE  /\ depth' = depth + 1
         /\ frame'[depth] = At(Top.fn, a) /\ frame'[depth].fn = Top.fn /\ frame'[depth].at = a
         /\ frame'[depth + 1] = At(f, "entry") /\ frame'[depth + 1].fn = f
         /\ frame'[depth + 1].at = "entry"
         /\ \A i \in 1..MaxDepth : i \notin {depth, depth + 1} => frame'[i] = frame[i]
<1>1. /\ depth' = depth + 1 /\ frame'[depth] = At(Top.fn, a) /\ frame'[depth + 1] = At(f, "entry")
      /\ \A i \in 1..MaxDepth : i \notin {depth, depth + 1} => frame'[i] = frame[i]
  BY CallTop DEF Top
<1> QED
  BY <1>1 DEF At

LEMMA BecomeFrames ==
  ASSUME StackOK, NEW f \in Function, Become(f)
  PROVE  /\ depth' = depth
         /\ frame'[depth] = At(f, "entry") /\ frame'[depth].fn = f /\ frame'[depth].at = "entry"
         /\ \A i \in 1..MaxDepth : i # depth => frame'[i] = frame[i]
<1>1. /\ depth' = depth /\ frame'[depth] = At(f, "entry")
      /\ \A i \in 1..MaxDepth : i # depth => frame'[i] = frame[i]
  BY BecomeTop DEF Top
<1> QED
  BY <1>1 DEF At

LEMMA GotoFrames ==
  ASSUME StackOK, NEW a \in Label, Goto(a)
  PROVE  /\ depth' = depth
         /\ frame'[depth] = At(Top.fn, a) /\ frame'[depth].fn = Top.fn /\ frame'[depth].at = a
         /\ \A i \in 1..MaxDepth : i # depth => frame'[i] = frame[i]
<1>1. /\ depth' = depth /\ frame'[depth] = At(Top.fn, a)
      /\ \A i \in 1..MaxDepth : i # depth => frame'[i] = frame[i]
  BY GotoTop DEF Top
<1> QED
  BY <1>1 DEF At

(* Whose actions these are.                                                *)
LEMMA RunningOf ==
  /\ Acquire => Top.fn \in Sections /\ Top.at = "entry"
  /\ UnlockConn => Top.fn \in Sections /\ Top.at = "locked"
  /\ CheckReport \/ CheckResume => Top.fn = "check"
  /\ Disconnect => Top = At("disconnect", "entry") /\ Top.fn = "disconnect"
  /\ ConnectEntry => Top = At("connect", "entry") /\ Top.fn = "connect"
  /\ ConnectOpen => Top = At("connect", "open") /\ Top.fn = "connect"
  /\ ConnectOpened => Top = At("connect", "opened") /\ Top.fn = "connect"
<1>1. \A f : Enter(f) => Top.fn = f /\ Top.at = "entry"
  BY DEF Enter, Running, At
<1>2. Acquire => Top.fn \in Sections /\ Top.at = "entry"
  BY <1>1 DEF Acquire, Command, AllowedCommands, UpdateOutputs, SetTimeout, Pause, StatusUpdate,
     StatsUpdate, Sections
<1>3. UnlockConn => Top.fn \in Sections /\ Top.at = "locked"
  BY DEF UnlockConn
<1>4. CheckReport \/ CheckResume => Top.fn = "check"
  BY DEF CheckReport, CheckResume, Running, At
<1>5. Disconnect => Top = At("disconnect", "entry") /\ Top.fn = "disconnect"
  BY DEF Disconnect, Running, At
<1>6. /\ ConnectEntry => Top = At("connect", "entry") /\ Top.fn = "connect"
      /\ ConnectOpen => Top = At("connect", "open") /\ Top.fn = "connect"
      /\ ConnectOpened => Top = At("connect", "opened") /\ Top.fn = "connect"
  BY DEF ConnectEntry, ConnectOpen, ConnectOpened, Running, At
<1> QED
  BY <1>2, <1>3, <1>4, <1>5, <1>6

-----------------------------------------------------------------------------
(* What a step may do to the rest.                                         *)

CareData ==
  /\ connected' => connected \/ ConnectOpened
  /\ conn' /\ ~connected' => ConnectOpen \/ (conn /\ ~connected)
  /\ ~connected' => \/ connected /\ ~(status' \/ stats' \/ hasIdle' \/ hasOutputs')
                    \/ ~connected /\ (status' => status) /\ (stats' => stats)
                                  /\ (hasIdle' => hasIdle) /\ (hasOutputs' => hasOutputs)
  /\ connected' /\ status => status' \/ Top.fn \in {"set", "setVolume"} \/ StatusUpdate
  /\ fault' = "getter" => \/ fault = "getter"
                          \/ Top = At("getter", "checked") /\ ret = "ok" /\ ~status

LEMMA NextCareData ==
  ASSUME TypeOK, Next
  PROVE  CareData
<1> USE DEF CareData, TypeOK, Running, At, session, cache
<1>1. ASSUME NEW f \in Api, ClientCall(f) PROVE CareData
  BY <1>1 DEF ClientCall
<1>2. CASE CallbackReturn
  BY <1>2 DEF CallbackReturn
<1>3. CASE CheckReport
  BY <1>3 DEF CheckReport
<1>4. CASE CheckResume
  BY <1>4 DEF CheckResume
<1>5. CASE Disconnect
  BY <1>5 DEF Disconnect
<1>6. CASE Disconnected
  BY <1>6 DEF Disconnected
<1>7. CASE UnlockConn
  BY <1>7 DEF UnlockConn
<1>8. CASE ConnectEntry
  BY <1>8 DEF ConnectEntry
<1>9. CASE ConnectOpen
  BY <1>9 DEF ConnectOpen
<1>10. CASE ConnectOpened
  BY <1>10 DEF ConnectOpened
<1>11. CASE ConnectFailed
  BY <1>11 DEF ConnectFailed
<1>12. CASE ConnectAllowed
  BY <1>12 DEF ConnectAllowed
<1>13. CASE ConnectAuth
  BY <1>13 DEF ConnectAuth
<1>14. CASE ConnectAnnounce
  BY <1>14 DEF ConnectAnnounce
<1>15. CASE ConnectDone
  BY <1>15 DEF ConnectDone
<1>16. CASE Refuse
  BY <1>16 DEF Refuse
<1>17. CASE Command
  BY <1>17 DEF Command, Enter, Exchange
<1>18. CASE AllowedCommands
  BY <1>18 DEF AllowedCommands, Enter, Exchange
<1>19. CASE UpdateOutputs
  BY <1>19 DEF UpdateOutputs, Enter, Exchange
<1>20. CASE SetTimeout
  BY <1>20 DEF SetTimeout, Enter, Exchange
<1>21. CASE Pause
  BY <1>21 DEF Pause, Enter, Exchange
<1>22. CASE StatusUpdate
  BY <1>22 DEF StatusUpdate, Enter, Exchange
<1>23. CASE StatsUpdate
  BY <1>23 DEF StatsUpdate, Enter, Exchange
<1>24. CASE SectionReturn
  BY <1>24 DEF SectionReturn
<1>25. CASE SetDone
  BY <1>25 DEF SetDone, QueueUpdate
<1>26. CASE SetVolumeDone
  BY <1>26 DEF SetVolumeDone, QueueUpdate
<1>27. CASE ControlDone
  BY <1>27 DEF ControlDone
<1>28. CASE SendPasswordNext
  BY <1>28 DEF SendPasswordNext
<1>29. CASE SendPasswordReturn
  BY <1>29 DEF SendPasswordReturn
<1>30. CASE StatusFailed
  BY <1>30 DEF StatusFailed
<1>31. CASE StatusDiff
  BY <1>31 DEF StatusDiff, Exchange
<1>32. CASE StatusOutputs
  BY <1>32 DEF StatusOutputs, Exchange
<1>33. CASE StatusGone
  BY <1>33 DEF StatusGone
<1>34. CASE StatusNotify
  BY <1>34 DEF StatusNotify
<1>35. CASE StatusDone
  BY <1>35 DEF StatusDone
<1>36. CASE GetterEntry
  BY <1>36 DEF GetterEntry
<1>37. CASE GetterChecked
  BY <1>37 DEF GetterChecked
<1>38. CASE GetterGone
  BY <1>38 DEF GetterGone
<1>39. CASE Crashed
  BY <1>39 DEF Crashed, vars
<1> QED
  BY <1>1, <1>2, <1>3, <1>4, <1>5, <1>6, <1>7, <1>8, <1>9, <1>10, <1>11, <1>12, <1>13, <1>14,
     <1>15, <1>16, <1>17, <1>18, <1>19, <1>20, <1>21, <1>22, <1>23, <1>24, <1>25, <1>26,
     <1>27, <1>28, <1>29, <1>30, <1>31, <1>32, <1>33, <1>34, <1>35, <1>36, <1>37, <1>38,
     <1>39
     DEF Next, ClientStep, LibraryStep

-----------------------------------------------------------------------------
(* The main loop is at the bottom of the stack and nowhere else.           *)

AppOnce == \A i \in 2..depth : frame[i].fn # "app"

Base == SessionInv /\ AppOnce

LEMMA BaseFacts ==
  ASSUME Base
  PROVE  /\ TypeOK /\ StackOK /\ Bottom /\ StackShape /\ TypeInv
         /\ depth \in 1..MaxDepth /\ MaxDepth \in Nat /\ frame[1].fn = "app"
         /\ Top.fn = "app" <=> depth = 1
<1>1. TypeOK /\ StackOK /\ Bottom /\ StackShape /\ TypeInv /\ depth \in 1..MaxDepth /\ MaxDepth \in Nat
  BY MaxDepthAssumption DEF Base, SessionInv, TypeInv, TypeOK, StackOK
<1>2. frame[1].fn = "app"
  BY <1>1 DEF Bottom, At
<1>3. Top.fn = "app" <=> depth = 1
  BY <1>1, <1>2 DEF Base, AppOnce, Top
<1> QED
  BY <1>1, <1>2, <1>3

LEMMA AppOnceStep ==
  ASSUME Base, Next
  PROVE  AppOnce'
<1>0. /\ TypeOK /\ StackOK /\ Bottom /\ StackShape /\ depth \in 1..MaxDepth /\ MaxDepth \in Nat
      /\ \A i \in 2..depth : frame[i].fn # "app"
  BY BaseFacts DEF Base, AppOnce
<1>1. ASSUME NEW f \in Function \ {"app"}, NEW a \in Label, CareCall(f, a)
      PROVE  AppOnce'
  <2>1. /\ depth' = depth + 1 /\ frame'[depth].fn = Top.fn /\ frame'[depth + 1].fn = f
        /\ \A i \in 1..MaxDepth : i \notin {depth, depth + 1} => frame'[i] = frame[i]
    BY <1>0, <1>1, CallFrames DEF CareCall
  <2> QED
    BY <1>0, <2>1 DEF AppOnce, Top
<1>2. ASSUME NEW f \in {"getter", "statusUpdate"}, CareBecome(f)
      PROVE  AppOnce'
  <2>1. /\ depth' = depth /\ frame'[depth].fn = f
        /\ \A i \in 1..MaxDepth : i # depth => frame'[i] = frame[i]
    BY <1>0, <1>2, BecomeFrames DEF CareBecome, Function, Sections, Api
  <2> QED
    BY <1>0, <2>1 DEF AppOnce
<1>3. ASSUME NEW a \in Label, CareGoto(a)
      PROVE  AppOnce'
  <2>1. /\ depth' = depth /\ frame'[depth].fn = Top.fn
        /\ \A i \in 1..MaxDepth : i # depth => frame'[i] = frame[i]
    BY <1>0, <1>3, GotoFrames DEF CareGoto
  <2> QED
    BY <1>0, <2>1 DEF AppOnce, Top
<1>4. ASSUME NEW r \in {"ok", "error"}, CareReturn(r)
      PROVE  AppOnce'
  <2>1. depth' = depth - 1 /\ \A i \in 1..MaxDepth : i # depth => frame'[i] = frame[i]
    BY <1>0, <1>4, ReturnTop DEF CareReturn
  <2> QED
    BY <1>0, <2>1 DEF AppOnce
<1>5. CASE UNCHANGED <<session, cache, stack>>
  BY <1>0, <1>5 DEF AppOnce, stack
<1> QED
  BY <1>0, <1>1, <1>2, <1>3, <1>4, <1>5, NextCare DEF CareStep

LEMMA BaseCorrect == Spec => []Base
<1>1. Init => Base
  <2>1. Init => depth = 1
    BY DEF Init
  <2> QED
    BY <2>1, SessionInit DEF Base, AppOnce
<1>2. Base /\ [Next]_vars => Base'
  <2> SUFFICES ASSUME Base, [Next]_vars PROVE Base'
    OBVIOUS
  <2>1. SessionInv'
    BY SessionStep DEF Base
  <2>2. AppOnce'
    <3>1. CASE UNCHANGED vars
      BY <3>1 DEF Base, AppOnce, vars, stack
    <3> QED
      BY <3>1, AppOnceStep
  <2> QED
    BY <2>1, <2>2 DEF Base
<1> QED
  BY <1>1, <1>2, PTL DEF Spec

-----------------------------------------------------------------------------
(* A function that no callback calls is never above the first call.        *)

LEMMA OnlyFromAppStep ==
  ASSUME Base, Next, NEW fns, fns \subseteq ForApp, OnlyFromApp(fns),
         \A c \in Callbacks : Calls[c] \cap fns = {}
  PROVE  OnlyFromApp(fns)'
<1>0. /\ TypeOK /\ StackOK /\ Bottom /\ StackShape /\ depth \in 1..MaxDepth /\ MaxDepth \in Nat
      /\ Top.fn = "app" <=> depth = 1
      /\ \A i \in 3..depth : frame[i].fn \notin fns
  BY BaseFacts DEF OnlyFromApp
<1>1. ASSUME NEW f \in Function \ {"app"}, NEW a \in Label, CareCall(f, a)
      PROVE  OnlyFromApp(fns)'
  <2>1. /\ depth' = depth + 1 /\ frame'[depth].fn = Top.fn /\ frame'[depth + 1].fn = f
        /\ \A i \in 1..MaxDepth : i \notin {depth, depth + 1} => frame'[i] = frame[i]
    BY <1>0, <1>1, CallFrames DEF CareCall
  <2>2. depth # 1 => f \notin fns
    BY <1>0, <1>1 DEF CareCall, Client
  <2> QED
    BY <1>0, <2>1, <2>2 DEF OnlyFromApp, Top
<1>2. ASSUME NEW f \in {"getter", "statusUpdate"}, CareBecome(f)
      PROVE  OnlyFromApp(fns)'
  <2>1. /\ depth' = depth /\ frame'[depth].fn = f
        /\ \A i \in 1..MaxDepth : i # depth => frame'[i] = frame[i]
    BY <1>0, <1>2, BecomeFrames DEF CareBecome, Function, Sections, Api
  <2>2. f \notin fns
    BY DEF ForApp
  <2> QED
    BY <1>0, <2>1, <2>2 DEF OnlyFromApp
<1>3. ASSUME NEW a \in Label, CareGoto(a)
      PROVE  OnlyFromApp(fns)'
  <2>1. /\ depth' = depth /\ frame'[depth].fn = Top.fn
        /\ \A i \in 1..MaxDepth : i # depth => frame'[i] = frame[i]
    BY <1>0, <1>3, GotoFrames DEF CareGoto
  <2> QED
    BY <1>0, <2>1 DEF OnlyFromApp, Top
<1>4. ASSUME NEW r \in {"ok", "error"}, CareReturn(r)
      PROVE  OnlyFromApp(fns)'
  <2>1. depth' = depth - 1 /\ \A i \in 1..MaxDepth : i # depth => frame'[i] = frame[i]
    BY <1>0, <1>4, ReturnTop DEF CareReturn
  <2> QED
    BY <1>0, <2>1 DEF OnlyFromApp
<1>5. CASE UNCHANGED <<session, cache, stack>>
  BY <1>0, <1>5 DEF OnlyFromApp, stack
<1> QED
  BY <1>0, <1>1, <1>2, <1>3, <1>4, <1>5, NextCare DEF CareStep

LEMMA AtFirst ==
  ASSUME Base, NEW fns, OnlyFromApp(fns), Top.fn \in fns
  PROVE  depth <= 2
BY BaseFacts DEF OnlyFromApp, Top

-----------------------------------------------------------------------------
(* A connection is opened only after the last one is closed.               *)

LEMMA ClosedStep ==
  ASSUME Base, Next, ~connected => ~(status \/ stats \/ hasIdle \/ hasOutputs)
  PROVE  (~connected => ~(status \/ stats \/ hasIdle \/ hasOutputs))'
BY BaseFacts, NextCareData DEF CareData

LEMMA GivingUpStep ==
  ASSUME Base, OpenInv, Next, conn, ~connected, conn', ~connected'
  PROVE  GivingUp'
<1>0. /\ TypeOK /\ StackOK /\ Bottom /\ StackShape /\ depth \in 1..MaxDepth /\ MaxDepth \in Nat
      /\ Top.fn = "app" <=> depth = 1
      /\ StackStep /\ GivingUp
  BY BaseFacts, NextStackStep DEF OpenInv
<1>1. CASE Crashed
  BY <1>0, <1>1 DEF Crashed, vars, stack, GivingUp, Top
<1>2. CASE ~Crashed /\ Top = At("connect", "opened")
  <2>1. ConnectOpened
    BY <1>0, <1>2, NextPlain, RunningOf DEF PlainTop, Sections, At
  <2>2. CallThen("check", "failed")
    BY <2>1 DEF ConnectOpened
  <2>3. depth = 2
    BY <1>0, <1>2, AtFirst DEF OpenInv, At
  <2>4. depth' = 3 /\ frame'[2] = At("connect", "failed") /\ frame'[3] = At("check", "entry")
    BY <1>0, <1>2, <2>2, <2>3, CallTop DEF Function, Label, At, Top
  <2> QED
    BY <2>4 DEF GivingUp
<1>3. CASE ~Crashed /\ Top = At("disconnect", "entry")
  <2>1. Disconnect
    BY <1>0, <1>3, NextPlain, RunningOf DEF PlainTop, Sections, At
  <2> QED
    BY <2>1 DEF Disconnect
<1>4. CASE ~Crashed /\ depth > 2 /\ frame[2] = At("connect", "failed")
           /\ (frame[3] = At("check", "fatal") \/ (depth = 3 /\ frame[3] = At("check", "entry")))
  <2>1. CASE depth # 3
    <3>1. 2 \in 1..depth /\ 3 \in 1..depth /\ 3 < depth /\ depth' > 2
          /\ frame'[2] = frame[2] /\ frame'[3] = frame[3]
      BY <1>0, <1>4, <2>1, BelowKept
    <3> QED
      BY <1>4, <2>1, <3>1 DEF GivingUp
  <2>2. CASE depth = 3
    <3>1. Top = frame[3] /\ Top.fn = "check" /\ frame'[2] = frame[2]
      BY <1>0, <1>4, <2>2, BelowKept DEF Top, At
    <3>2. CheckReport \/ CheckResume
      BY <1>0, <1>4, <3>1, NextPlain, RunningOf DEF PlainTop, Sections
    <3>3. CASE Top = At("check", "entry")
      <4>1. error # "ack"
        <5>1. depth > 1 /\ depth - 1 = 2
          BY <2>2
        <5> QED
          BY <1>4, <3>3, <5>1 DEF Base, SessionInv, FailsForGood
      <4>2. CallThen("onError", "fatal")
        BY <3>2, <3>3, <4>1 DEF CheckReport, CheckResume, Running, At
      <4>3. frame'[3] = At("check", "fatal") /\ depth' = 4
        BY <1>0, <2>2, <3>1, <4>2, CallTop DEF Function, Client, Callbacks, Label
      <4> QED
        BY <1>4, <3>1, <4>3 DEF GivingUp
    <3>4. CASE Top = At("check", "fatal")
      <4>1. CallThen("disconnect", "disconnecting")
        BY <3>2, <3>4 DEF CheckReport, CheckResume, Running, At
      <4>2. Top' = At("disconnect", "entry")
        BY <1>0, <4>1, CallTop DEF Function, Api, Label
      <4> QED
        BY <4>2 DEF GivingUp
    <3> QED
      BY <1>4, <3>1, <3>3, <3>4
  <2> QED
    BY <2>1, <2>2
<1> QED
  BY <1>0, <1>1, <1>2, <1>3, <1>4 DEF GivingUp

(* mpd_connect_real goes on to open a connection when there is none, or    *)
(* after mpd_disconnect.                                                   *)
OpenFrame == depth > 1 /\ frame[2] = At("connect", "open") /\ connected => Top = At("disconnect", "entry")

LEMMA OpenFrameStep ==
  ASSUME Base, OpenInv, Next
  PROVE  OpenFrame'
<1>0. /\ TypeOK /\ StackOK /\ Bottom /\ StackShape /\ depth \in 1..MaxDepth /\ MaxDepth \in Nat
      /\ Top.fn = "app" <=> depth = 1
      /\ StackStep /\ CareStep /\ OpenFrame /\ (connected' => connected \/ ConnectOpened)
  BY BaseFacts, NextStackStep, NextCare, NextCareData DEF OpenInv, OpenFrame, CareData
<1> SUFFICES ASSUME depth' > 1, frame'[2] = At("connect", "open"), connected'
             PROVE  Top' = At("disconnect", "entry")
  BY DEF OpenFrame
<1>1. ASSUME ConnectEntry PROVE Top' = At("disconnect", "entry")
  <2>1. CallThen("disconnect", "open")
    BY <1>1 DEF ConnectEntry, session
  <2> QED
    BY <1>0, <2>1, CallTop DEF Function, Api, Label
<1>2. CASE UNCHANGED <<session, cache, stack>>
  BY <1>0, <1>2 DEF OpenFrame, Top, session, stack
<1>3. CASE depth > 2
  <2>1. frame[2] = At("connect", "open")
    BY <1>0, <1>3, BelowKept
  <2>2. ~ConnectOpened
    BY <1>0, <1>3, RunningOf, AtFirst DEF OpenInv
  <2>3. Top = At("disconnect", "entry") /\ ~Disconnect
    BY <1>0, <1>3, <2>1, <2>2 DEF OpenFrame, Disconnect
  <2>4. Crashed
    <3>1. ~PlainTop /\ Top.fn = "disconnect"
      BY <2>3 DEF PlainTop, At
    <3> QED
      BY <1>0, <2>3, <3>1, NextPlain, RunningOf DEF Sections
  <2> QED
    BY <1>2, <2>4 DEF Crashed, vars
<1>4. CASE depth <= 2
  <2>1. ASSUME NEW f \in Function \ {"app"}, NEW a \in Label, CareCall(f, a)
        PROVE  Top' = At("disconnect", "entry")
    <3>1. /\ frame'[depth].fn = Top.fn /\ frame'[depth].at = a
          /\ frame'[depth + 1].at = "entry"
      BY <1>0, <2>1, CallFrames DEF CareCall
    <3>2. depth = 2
      BY <1>0, <1>4, <3>1 DEF At
    <3> QED
      BY <1>1, <2>1, <3>1, <3>2 DEF CareCall, Resumes, At
  <2>2. ASSUME NEW f \in {"getter", "statusUpdate"}, CareBecome(f)
        PROVE  FALSE
    <3>1. depth' = depth /\ frame'[depth].at = "entry"
      BY <1>0, <2>2, BecomeFrames DEF CareBecome, Function, Sections, Api
    <3> QED
      BY <1>0, <1>4, <3>1 DEF At
  <2>3. ASSUME NEW a \in Label, CareGoto(a)
        PROVE  Top' = At("disconnect", "entry")
    <3>1. depth' = depth /\ frame'[depth].fn = Top.fn /\ frame'[depth].at = a
      BY <1>0, <2>3, GotoFrames DEF CareGoto
    <3> QED
      BY <1>0, <1>1, <1>4, <2>3, <3>1 DEF CareGoto, Resumes, At
  <2>4. ASSUME NEW r \in {"ok", "error"}, CareReturn(r)
        PROVE  FALSE
    BY <1>0, <1>4, <2>4, ReturnTop DEF CareReturn
  <2> QED
    BY <1>0, <1>2, <2>1, <2>2, <2>3, <2>4 DEF CareStep
<1> QED
  BY <1>0, <1>3, <1>4

LEMMA OpenStep ==
  ASSUME NeverReconnects, Base, OpenInv, Next
  PROVE  OpenInv'
<1>1. OnlyFromApp({"connect"})'
  BY OnlyFromAppStep DEF NeverReconnects, OpenInv, ForApp
<1>2. (~connected => ~(status \/ stats \/ hasIdle \/ hasOutputs))'
  BY ClosedStep DEF OpenInv
<1>3. (conn /\ ~connected => GivingUp)'
  <2>1. ConnectOpen => Top' = At("connect", "opened")
    BY BaseFacts, GotoTop DEF ConnectOpen, Running, At, Label
  <2> QED
    BY <2>1, BaseFacts, NextCareData, GivingUpStep DEF CareData, GivingUp
<1>4. OpenFrame'
  BY OpenFrameStep
<1> QED
  BY <1>1, <1>2, <1>3, <1>4 DEF OpenInv, OpenFrame

(* Whatever the callbacks do but connect: who is not connected has nothing *)
(* cached and no connection but one that mpd_check_error is about to       *)
(* close.                                                                  *)
THEOREM ClosedForGood ==
  ASSUME NeverReconnects
  PROVE  Spec => []OpenInv
<1>1. Init => OpenInv
  <2> SUFFICES ASSUME Init PROVE OpenInv
    OBVIOUS
  <2> QED
    BY DEF Init, OpenInv, OnlyFromApp
<1>2. Base /\ OpenInv /\ [Next]_vars => OpenInv'
  <2>1. ASSUME UNCHANGED vars, OpenInv PROVE OpenInv'
    BY <2>1 DEF OpenInv, OnlyFromApp, GivingUp, Top, vars, session, cache, stack
  <2> QED
    BY <2>1, OpenStep
<1> QED
  BY <1>1, <1>2, BaseCorrect, PTL DEF Spec

(* mpd_connect_real opens a connection only after mpd_disconnect closed    *)
(* the last one and emptied the cache, as long as no callback connects.    *)
THEOREM OpensCleanly ==
  ASSUME NeverReconnects
  PROVE  Spec => []OpensClean
<1>1. Base /\ OpenInv => OpensClean
  <2> SUFFICES ASSUME Base, OpenInv, Top = At("connect", "open")
               PROVE  ~(conn \/ status \/ stats \/ hasIdle \/ hasOutputs)
    BY DEF OpensClean
  <2>1. depth = 2 /\ frame[2] = Top
    <3>1. depth <= 2 /\ depth # 1
      BY BaseFacts, AtFirst DEF OpenInv, At
    <3> QED
      BY <3>1, BaseFacts DEF Top
  <2> QED
    BY <2>1 DEF OpenInv, GivingUp, At
<1> QED
  BY <1>1, ClosedForGood, BaseCorrect, PTL

-----------------------------------------------------------------------------
(* Who was told MPD_OK by mpd_status_check has a status.                   *)

LaterHasStatus(i) ==
  frame[i].fn = "statusUpdate" /\ frame[i].at \in Later => (connected => status)

LEMMA ForAppFirst ==
  ASSUME Base, StatusInv, Top.fn \in ForApp
  PROVE  depth <= 2
BY AtFirst DEF StatusInv, ForApp

(* A frame that waits keeps its status: the only one who drops it is       *)
(* called from the main loop, or fetches one because there is none.        *)
LEMMA StatusKept ==
  ASSUME Base, StatusInv, Next, NEW i \in 1..depth, LaterHasStatus(i),
         i < depth \/ ~StatusUpdate
  PROVE  frame[i].fn = "statusUpdate" /\ frame[i].at \in Later => (connected' => status')
<1>0. /\ depth \in 1..MaxDepth /\ MaxDepth \in Nat /\ frame[1].fn = "app"
      /\ CareData
  BY BaseFacts, NextCareData
<1> SUFFICES ASSUME frame[i].fn = "statusUpdate", frame[i].at \in Later, connected'
             PROVE  status'
  OBVIOUS
<1>1. Top.fn \notin ForApp
  <2> SUFFICES ASSUME Top.fn \in ForApp PROVE FALSE
    OBVIOUS
  <2>1. i = 1 \/ i = depth
    BY <1>0, ForAppFirst
  <2> QED
    BY <1>0, <2>1 DEF Top, ForApp
<1>2. connected /\ status
  BY <1>0, <1>1, RunningOf DEF CareData, LaterHasStatus, ForApp
<1>3. ~StatusUpdate
  <2> SUFFICES ASSUME StatusUpdate, i < depth PROVE FALSE
    OBVIOUS
  <2>1. Top = At("statusUpdate", "entry")
    BY DEF StatusUpdate, Enter, Running
  <2>2. i # 1
    BY <1>0
  <2> QED
    BY <1>0, <1>2, <2>1, <2>2 DEF StatusInv
<1> QED
  BY <1>0, <1>1, <1>2, <1>3 DEF CareData, ForApp

LEMMA LaterStep ==
  ASSUME Base, StatusInv, Next, NEW i \in 1..depth'
  PROVE  LaterHasStatus(i)'
<1>0. /\ TypeOK /\ StackOK /\ Bottom /\ StackShape /\ depth \in 1..MaxDepth /\ MaxDepth \in Nat
      /\ StackStep /\ CareStep /\ depth' \in 1..MaxDepth
      /\ \A j \in 1..depth : LaterHasStatus(j)
  BY BaseFacts, NextStackStep, StackStepType, NextCare DEF StatusInv, LaterHasStatus, Later, StackOK
<1>1. CASE i < depth
  <2>1. i \in 1..depth /\ frame'[i] = frame[i]
    BY <1>0, <1>1, BelowKept
  <2> QED
    BY <1>0, <1>1, <2>1, StatusKept DEF LaterHasStatus
<1>2. ASSUME NEW a \in Label, Resumes(a), Top.fn = "statusUpdate", a \in Later
      PROVE  connected' => status'
  <2>1. StatusDiff \/ StatusOutputs \/ StatusNotify
    BY <1>2 DEF Resumes
  <2>2. connected' = connected /\ status' = status
    BY <2>1 DEF StatusDiff, StatusOutputs, StatusNotify, session, cache
  <2>3. CASE StatusDiff
    BY <2>2, <2>3 DEF StatusDiff, Running, StatusInv
  <2>4. CASE StatusOutputs
    BY <2>2, <2>4 DEF StatusOutputs
  <2>5. CASE StatusNotify
    <3>1. Top.fn = "statusUpdate" /\ Top.at = "notify"
      BY <2>5 DEF StatusNotify, Running, At
    <3> QED
      BY <1>0, <2>2, <3>1 DEF LaterHasStatus, Later, Top
  <2> QED
    BY <2>1, <2>3, <2>4, <2>5
<1>3. ASSUME i >= depth, NEW f \in Function \ {"app"}, NEW a \in Label, CareCall(f, a)
      PROVE  LaterHasStatus(i)'
  <2>1. /\ depth' = depth + 1 /\ frame'[depth].fn = Top.fn /\ frame'[depth].at = a
        /\ frame'[depth + 1].at = "entry"
    BY <1>0, <1>3, CallFrames DEF CareCall
  <2> QED
    BY <1>0, <1>2, <1>3, <2>1 DEF CareCall, LaterHasStatus, Later
<1>4. ASSUME i >= depth, NEW f \in {"getter", "statusUpdate"}, CareBecome(f)
      PROVE  LaterHasStatus(i)'
  <2>1. depth' = depth /\ frame'[depth].at = "entry"
    BY <1>0, <1>4, BecomeFrames DEF CareBecome, Function, Sections, Api
  <2> QED
    BY <1>0, <1>4, <2>1 DEF LaterHasStatus, Later
<1>5. ASSUME i >= depth, NEW a \in Label, CareGoto(a)
      PROVE  LaterHasStatus(i)'
  <2>1. depth' = depth /\ frame'[depth].fn = Top.fn /\ frame'[depth].at = a
    BY <1>0, <1>5, GotoFrames DEF CareGoto
  <2> QED
    BY <1>0, <1>2, <1>5, <2>1 DEF CareGoto, LaterHasStatus
<1>6. ASSUME i >= depth, NEW r \in {"ok", "error"}, CareReturn(r)
      PROVE  FALSE
  BY <1>0, <1>6, ReturnTop DEF CareReturn
<1>7. CASE UNCHANGED <<session, cache, stack>>
  BY <1>0, <1>7 DEF LaterHasStatus, session, cache, stack
<1> QED
  BY <1>0, <1>1, <1>3, <1>4, <1>5, <1>6, <1>7 DEF CareStep

(* What a frame waits for.                                                 *)
WaitsWell(i) ==
  i < depth =>
    /\ frame[i] # At("statusUpdate", "locked")
    /\ frame[i] = At("getter", "checked") => frame[i + 1].fn = "statusUpdate"

LEMMA WaitsStep ==
  ASSUME Base, StatusInv, Next, NEW i \in 1..depth'
  PROVE  WaitsWell(i)'
<1>0. /\ TypeOK /\ StackOK /\ Bottom /\ StackShape /\ depth \in 1..MaxDepth /\ MaxDepth \in Nat
      /\ StackStep /\ CareStep /\ depth' \in 1..MaxDepth
      /\ \A j \in 1..depth : WaitsWell(j)
  BY BaseFacts, NextStackStep, StackStepType, NextCare DEF StatusInv, WaitsWell, StackOK
<1> SUFFICES ASSUME i < depth'
             PROVE  /\ frame'[i] # At("statusUpdate", "locked")
                    /\ frame'[i] = At("getter", "checked") => frame'[i + 1].fn = "statusUpdate"
  BY DEF WaitsWell
<1>1. i < depth => i \in 1..depth /\ i + 1 \in 1..depth /\ frame'[i] = frame[i] /\ WaitsWell(i)
  BY <1>0, BelowKept
<1>2. ASSUME NEW f \in Function \ {"app"}, NEW a \in Label, CareCall(f, a)
      PROVE  /\ frame'[i] # At("statusUpdate", "locked")
             /\ frame'[i] = At("getter", "checked") => frame'[i + 1].fn = "statusUpdate"
  <2>1. /\ depth' = depth + 1 /\ frame'[depth].fn = Top.fn /\ frame'[depth].at = a
        /\ frame'[depth + 1].fn = f
        /\ \A j \in 1..MaxDepth : j \notin {depth, depth + 1} => frame'[j] = frame[j]
    BY <1>0, <1>2, CallFrames DEF CareCall
  <2>2. CASE i = depth
    BY <1>2, <2>1, <2>2 DEF CareCall, At
  <2>3. CASE i < depth
    <3>1. frame'[i + 1].fn = frame[i + 1].fn
      BY <1>0, <1>1, <2>1, <2>3 DEF Top
    <3> QED
      BY <1>1, <2>3, <3>1 DEF WaitsWell
  <2> QED
    BY <1>0, <2>1, <2>2, <2>3
<1>3. ASSUME NEW f \in {"getter", "statusUpdate"}, CareBecome(f)
      PROVE  /\ frame'[i] # At("statusUpdate", "locked")
             /\ frame'[i] = At("getter", "checked") => frame'[i + 1].fn = "statusUpdate"
  <2>1. /\ depth' = depth
        /\ \A j \in 1..MaxDepth : j # depth => frame'[j] = frame[j]
    BY <1>0, <1>3, BecomeFrames DEF CareBecome, Function, Sections, Api
  <2>2. i < depth
    BY <2>1
  <2>3. CASE i + 1 = depth
    <3>1. frame[i + 1].fn # "statusUpdate"
      BY <1>3, <2>3 DEF CareBecome, ForApp, Top
    <3> QED
      BY <1>1, <2>2, <3>1 DEF WaitsWell
  <2>4. CASE i + 1 # depth
    <3>1. frame'[i + 1] = frame[i + 1]
      BY <1>0, <1>1, <2>1, <2>2, <2>4
    <3> QED
      BY <1>1, <2>2, <3>1 DEF WaitsWell
  <2> QED
    BY <2>3, <2>4
<1>4. ASSUME NEW a \in Label, CareGoto(a)
      PROVE  /\ frame'[i] # At("statusUpdate", "locked")
             /\ frame'[i] = At("getter", "checked") => frame'[i + 1].fn = "statusUpdate"
  <2>1. /\ depth' = depth /\ frame'[depth].fn = Top.fn
        /\ \A j \in 1..MaxDepth : j # depth => frame'[j] = frame[j]
    BY <1>0, <1>4, GotoFrames DEF CareGoto
  <2>2. i < depth /\ frame'[i + 1].fn = frame[i + 1].fn
    BY <1>0, <1>1, <2>1 DEF Top
  <2> QED
    BY <1>1, <2>2 DEF WaitsWell
<1>5. ASSUME NEW r \in {"ok", "error"}, CareReturn(r)
      PROVE  /\ frame'[i] # At("statusUpdate", "locked")
             /\ frame'[i] = At("getter", "checked") => frame'[i + 1].fn = "statusUpdate"
  <2>1. /\ depth' = depth - 1
        /\ \A j \in 1..MaxDepth : j # depth => frame'[j] = frame[j]
    BY <1>0, <1>5, ReturnTop DEF CareReturn
  <2>2. i < depth /\ frame'[i + 1] = frame[i + 1]
    BY <1>0, <1>1, <2>1
  <2> QED
    BY <1>1, <2>2 DEF WaitsWell
<1>6. CASE UNCHANGED <<session, cache, stack>>
  BY <1>0, <1>1, <1>6 DEF WaitsWell, stack
<1> QED
  BY <1>0, <1>2, <1>3, <1>4, <1>5, <1>6 DEF CareStep

(* What the running function knows of the status.                          *)
TopKnows ==
  /\ Top = At("statusUpdate", "entry") /\ depth > 2 => ~(connected /\ status)
  /\ Top = At("statusUpdate", "locked") /\ error = "none" => status
  /\ Top \in {At("statusUpdate", "unlocked"), At("getter", "checked")} /\ ret = "ok" => status

LEMMA TopKnowsStep ==
  ASSUME LeavesStatusAlone, Base, StatusInv, Next
  PROVE  TopKnows'
<1>0. /\ TypeOK /\ StackOK /\ Bottom /\ StackShape /\ depth \in 1..MaxDepth /\ MaxDepth \in Nat
      /\ StackStep /\ CareStep /\ TopKnows
      /\ Top.fn = "app" <=> depth = 1
  BY BaseFacts, NextStackStep, NextCare DEF StatusInv, TopKnows
<1>1. Top'.at = "unlocked" /\ Top'.fn = "statusUpdate" /\ ret' = "ok" => status'
  <2>1. CASE UnlockConn
    <3> SUFFICES ASSUME Top'.at = "unlocked", Top'.fn = "statusUpdate", ret' = "ok" PROVE status'
      OBVIOUS
    <3>1. Goto("unlocked") /\ status' = status /\ Top.at = "locked"
          /\ (ret' = "ok" => lock /\ conn /\ error = "none")
      <4>1. ~(lock /\ conn /\ error # "none")
        <5> SUFFICES ASSUME lock, conn, error # "none" PROVE FALSE
          OBVIOUS
        <5>1. CallThen("check", "unlocked")
          BY <2>1 DEF UnlockConn, CheckError
        <5>2. Top'.at = "entry"
          BY <1>0, <5>1, CallTop DEF At, Function, Label
        <5> QED
          BY <5>2
      <4> QED
        BY <2>1, <4>1 DEF UnlockConn, CheckError, cache
    <3>2. Top.fn = "statusUpdate"
      BY <1>0, <3>1, GotoTop DEF At, Label
    <3>3. Top = At("statusUpdate", "locked")
      BY <1>0, <3>1, <3>2, TopType DEF Frame, At
    <3> QED
      BY <1>0, <3>1, <3>3 DEF TopKnows
  <2>2. CASE ConnectOpen
    <3>1. Top'.at = "opened"
      BY <1>0, <2>2, GotoTop DEF ConnectOpen, At, Label
    <3> QED
      BY <3>1
  <2>3. CASE Crashed
    <3>1. Top' = Top /\ ret' = ret /\ status' = status
      BY <2>3 DEF Crashed, vars, stack, cache, Top
    <3>2. Top.at = "unlocked" /\ Top.fn = "statusUpdate" => Top = At("statusUpdate", "unlocked")
      BY <1>0, TopType DEF Frame, At
    <3> QED
      BY <1>0, <3>1, <3>2 DEF TopKnows
  <2>4. CASE ~UnlockConn /\ ~ConnectOpen /\ ~Crashed
    BY <1>0, <2>4, NextQuiet, QuietStepTop DEF QuietTop
  <2> QED
    BY <2>1, <2>2, <2>3, <2>4
<1>2. (Top = At("statusUpdate", "entry") /\ depth > 2 => ~(connected /\ status))'
      /\ (Top = At("statusUpdate", "locked") /\ error = "none" => status)'
      /\ (Top = At("getter", "checked") /\ ret = "ok" => status)'
  <2>1. ASSUME NEW f \in Function \ {"app"}, NEW a \in Label, CareCall(f, a)
        PROVE  /\ Top'.fn = f /\ Top'.at = "entry"
               /\ f = "statusUpdate" /\ depth' > 2 => ~status'
    <3>0. Top' = At(f, "entry") /\ depth' = depth + 1
      BY <1>0, <2>1, CallTop DEF CareCall
    <3>1. Top'.fn = f /\ Top'.at = "entry" /\ depth' = depth + 1
      BY <3>0 DEF At
    <3>2. ASSUME Top.fn \in Client, f \in Calls[Top.fn], f = "statusUpdate"
          PROVE  depth = 1
      BY <1>0, <3>2 DEF LeavesStatusAlone, Client
    <3> QED
      BY <1>0, <2>1, <3>1, <3>2 DEF CareCall
  <2>2. ASSUME NEW f \in {"getter", "statusUpdate"}, CareBecome(f)
        PROVE  Top'.at = "entry" /\ depth' <= 2
    <3>1. Top'.at = "entry" /\ depth' = depth
      BY <1>0, <2>2, BecomeTop DEF CareBecome, Function, Sections, Api, At
    <3> QED
      BY <2>2, <3>1, ForAppFirst DEF CareBecome
  <2>3. ASSUME NEW a \in Label \ {"entry", "checked"}, CareGoto(a)
        PROVE  /\ Top'.at = a
               /\ Top'.fn = "statusUpdate" /\ a = "locked" /\ error' = "none" => status'
    <3>1. Top'.at = a /\ Top'.fn = Top.fn
      BY <1>0, <2>3, GotoTop DEF CareGoto, At
    <3> QED
      BY <2>3, <3>1 DEF CareGoto, Resumes, StatusUpdate
  <2>4. ASSUME NEW r \in {"ok", "error"}, CareReturn(r)
        PROVE  /\ Top' # At("statusUpdate", "entry") /\ Top' # At("statusUpdate", "locked")
               /\ Top' = At("getter", "checked") /\ ret' = "ok" => status'
    <3>1. /\ depth - 1 \in 1..depth /\ depth - 1 < depth /\ (depth - 1) + 1 = depth
          /\ Top' = frame[depth - 1] /\ ret' = r
          /\ Top'.at = "entry" => Top'.fn \in Client
      BY <1>0, <2>4, ReturnTop DEF CareReturn, Return
    <3>2. Top' # At("statusUpdate", "locked")
      BY <3>1 DEF StatusInv
    <3>3. Top' # At("statusUpdate", "entry")
      BY <3>1 DEF At, Client, Callbacks
    <3>4. ASSUME Top' = At("getter", "checked"), ret' = "ok" PROVE status'
      <4>1. Top.fn = "statusUpdate"
        BY <3>1, <3>4 DEF StatusInv, Top
      <4>2. Top.at = "notified" /\ connected /\ status' = status
        BY <2>4, <3>1, <3>4, <4>1 DEF CareReturn
      <4>3. status
        BY <1>0, <4>1, <4>2 DEF StatusInv, Top
      <4> QED
        BY <4>2, <4>3
    <3> QED
      BY <3>2, <3>3, <3>4
  <2>5. CASE UNCHANGED <<session, cache, stack>>
    BY <1>0, <2>5 DEF TopKnows, Top, session, cache, stack
  <2>6. \A g, a : At(g, a).fn = g /\ At(g, a).at = a
    BY DEF At
  <2>7. CASE \E f \in Function \ {"app"}, a \in Label : CareCall(f, a)
    BY <2>1, <2>6, <2>7
  <2>8. CASE \E f \in {"getter", "statusUpdate"} : CareBecome(f)
    <3>1. Top'.at = "entry" /\ depth' <= 2
      BY <2>2, <2>8
    <3>2. depth' \in Nat
      BY <1>0, BelowKept
    <3> QED
      BY <2>6, <3>1, <3>2
  <2>9. CASE \E a \in Label \ {"entry", "checked"} : CareGoto(a)
    BY <2>3, <2>6, <2>9
  <2>10. CASE \E r \in {"ok", "error"} : CareReturn(r)
    BY <2>4, <2>10
  <2> QED
    BY <1>0, <2>5, <2>7, <2>8, <2>9, <2>10 DEF CareStep
<1> QED
  BY <1>1, <1>2 DEF TopKnows, At

LEMMA StatusStep ==
  ASSUME LeavesStatusAlone, Base, StatusInv, Next
  PROVE  StatusInv'
<1>1. OnlyFromApp({"connect", "set", "setVolume", "control", "pause"})'
  BY OnlyFromAppStep DEF LeavesStatusAlone, StatusInv, ForApp
<1>2. \A i \in 1..depth' : LaterHasStatus(i)' /\ WaitsWell(i)'
  BY LaterStep, WaitsStep
<1>3. TopKnows'
  BY TopKnowsStep
<1>4. NoGetterFault'
  <2>1. TopKnows /\ NoGetterFault /\ CareData
    BY NextCareData, BaseFacts DEF StatusInv, TopKnows
  <2> QED
    BY <2>1 DEF TopKnows, NoGetterFault, CareData
<1> QED
  BY <1>1, <1>2, <1>3, <1>4 DEF StatusInv, LaterHasStatus, WaitsWell, TopKnows, Later

(* A mpd_status_update that has a status keeps it or loses the connection  *)
(* until it returns, whatever the callbacks read, hang up or ask for.      *)
THEOREM StatusHeld ==
  ASSUME LeavesStatusAlone
  PROVE  Spec => []StatusInv
<1>1. Init => StatusInv
  <2> SUFFICES ASSUME Init PROVE StatusInv
    OBVIOUS
  <2>1. depth = 1 /\ fault = "none" /\ frame[1] = At("app", "entry")
    BY TypeInit DEF Init, TypeInv, Bottom
  <2>2. Top = At("app", "entry")
    BY <2>1 DEF Top
  <2> QED
    BY <2>1, <2>2 DEF StatusInv, OnlyFromApp, NoGetterFault, At
<1>2. Base /\ StatusInv /\ [Next]_vars => StatusInv'
  <2>1. ASSUME UNCHANGED vars, StatusInv PROVE StatusInv'
    BY <2>1 DEF StatusInv, OnlyFromApp, NoGetterFault, Top, vars, session, cache, stack
  <2> QED
    BY <2>1, StatusStep
<1> QED
  BY <1>1, <1>2, BaseCorrect, PTL DEF Spec

(* mpd_status_check answers MPD_OK only with a status to read, for every   *)
(* client whose callbacks neither connect nor change or fetch the status   *)
(* themselves; session_getter shows what becomes of one that sets a mode.  *)
THEOREM GettersRead ==
  ASSUME LeavesStatusAlone
  PROVE  Spec => []NoGetterFault
<1>1. StatusInv => NoGetterFault
  BY DEF StatusInv
<1> QED
  BY <1>1, StatusHeld, PTL
=============================================================================
