-------------------------- MODULE SavedConfigProofs --------------------------
(***************************************************************************)
(* Proofs about SavedConfig, for every number of commands, set of values   *)
(* and number of kills: what commands given one at a time leave in the     *)
(* file, and what a background process reads from it.                      *)
(***************************************************************************)
EXTENDS SavedConfig, TLAPS

Labels == {"idle", "load", "connect", "remember", "truncate", "write", "spawn"}

(* What the file has to do with a command's values at each of its steps.   *)
Stage(i) ==
  LET c == command[i] IN
  /\ \/ pc[i] \in {"remember", "truncate", "write", "spawn"}
     \/ pc[i] = "connect" /\ c.kind \notin Starts
     => /\ c.used.token # None
        /\ c.given.token # None => c.used.token = c.given.token
  /\ pc[i] = "remember" \/ (pc[i] = "connect" /\ c.kind \notin Starts) =>
       file \in Defaults /\ c.used = Resolved(c.given, file)
  /\ pc[i] = "truncate" => file \in Defaults
  /\ pc[i] = "write" => file = Blank
  /\ pc[i] \in {"truncate", "write"} => c.config = c.used
  /\ pc[i] = "spawn" =>
       c.kind \in Starts /\ file \in Defaults /\ file.token = c.used.token

(* As long as there was one command at a time.                             *)
Tracked ==
  ~ overlapped =>
    \A i \in Invocations : pc[i] # "idle" =>
      Stage(i) /\ \A j \in Invocations : j # i => pc[j] = "idle"

(* Whatever overlaps: until a save is torn, a command that has the file    *)
(* open has it alone, and the file is complete when none has.              *)
Readable ==
  ~ torn =>
    /\ \A i \in Invocations : pc[i] = "write" =>
         file = Blank /\ \A j \in Invocations : j # i => pc[j] # "write"
    /\ (\A i \in Invocations : pc[i] # "write") => file \in Defaults

IInv == TypeOK /\ Tracked /\ Readable

-----------------------------------------------------------------------------
LEMMA Resolving ==
  ASSUME NEW g \in Defaults, NEW s \in Defaults
  PROVE  /\ Resolved(g, s) \in Defaults
         /\ Resolved(g, s).token = Or(g.token, s.token)
         /\ g.token # None => Resolved(g, s).token = g.token
         /\ g = Empty => Resolved(g, s) = s
<1>1. /\ Resolved(g, s).token = Or(g.token, s.token)
      /\ Resolved(g, s).server = Or(g.server, s.server)
  BY DEF Resolved
<1>2. Or(g.token, s.token) \in Tokens \cup {None} /\ Or(g.server, s.server) \in Servers \cup {None}
  BY DEF Or, Defaults
<1>3. Resolved(g, s) \in Defaults
  BY <1>2 DEF Resolved, Defaults
<1>4. ASSUME g = Empty PROVE Resolved(g, s) = s
  BY <1>4 DEF Resolved, Defaults, Empty, Or
<1> QED
  BY <1>1, <1>3, <1>4 DEF Or

LEMMA EmptyDefaults == Empty \in Defaults
BY DEF Empty, Defaults

LEMMA Initially == Init => IInv
<1> SUFFICES ASSUME Init PROVE IInv
  OBVIOUS
<1>1. TypeOK
  <2>1. kills \in 0 .. MaxKills
    BY ConfigAssumption DEF Init
  <2>2. pc \in [Invocations -> Labels] /\ command \in [Invocations -> Commands \cup {None}]
    BY DEF Init, Labels
  <2>3. \A i \in Invocations : pc[i] = "idle"
    BY DEF Init
  <2> QED
    BY <2>1, <2>2, <2>3, EmptyDefaults DEF Init, TypeOK, Labels
<1> QED
  BY <1>1, EmptyDefaults DEF Init, IInv, Tracked, Readable

LEMMA Continuing ==
  ASSUME TypeOK, NEW i \in Invocations, NEW label \in Labels, NEW c,
         label # "idle" => c \in Commands, Continue(i, label, c)
  PROVE  /\ pc' \in [Invocations -> Labels] /\ pc'[i] = label
         /\ command' \in [Invocations -> Commands \cup {None}]
         /\ label # "idle" => command'[i] = c
         /\ \A j \in Invocations : j # i => pc'[j] = pc[j] /\ command'[j] = command[j]
         /\ \A j \in Invocations : pc'[j] # "idle" => command'[j] \in Commands
<1>1. /\ pc' \in [Invocations -> Labels] /\ pc'[i] = label
      /\ \A j \in Invocations : j # i => pc'[j] = pc[j]
  BY DEF Continue, TypeOK, Labels
<1>2. /\ command' \in [Invocations -> Commands \cup {None}]
      /\ label # "idle" => command'[i] = c
      /\ \A j \in Invocations : j # i => command'[j] = command[j]
  BY DEF Continue, TypeOK
<1> QED
  BY <1>1, <1>2 DEF TypeOK

(* A step of a command under way: what holds at its next step.             *)
LEMMA Stepping ==
  ASSUME IInv, NEW i \in Invocations, pc[i] # "idle", NEW label \in Labels, NEW c,
         label # "idle" => c \in Commands, Continue(i, label, c),
         file' \in Defaults \cup Unreadable, kills' \in 0 .. MaxKills,
         overlapped' = overlapped, torn' \in BOOLEAN,
         ~ overlapped /\ Stage(i) /\ label # "idle" => Stage(i)',
         ~ torn' =>
           \/ /\ label = "write" /\ file' = Blank
              /\ \A j \in Invocations : pc[j] # "write"
           \/ label # "write" /\ ~ torn /\ pc[i] # "write" /\ file' = file
           \/ /\ label # "write" /\ ~ torn /\ pc[i] = "write"
              /\ file = Blank => file' \in Defaults
  PROVE  IInv'
<1>1. /\ pc' \in [Invocations -> Labels] /\ pc'[i] = label
      /\ command' \in [Invocations -> Commands \cup {None}]
      /\ \A j \in Invocations : j # i => pc'[j] = pc[j] /\ command'[j] = command[j]
      /\ \A j \in Invocations : pc'[j] # "idle" => command'[j] \in Commands
  BY Continuing DEF IInv
<1>2. TypeOK'
  BY <1>1 DEF IInv, TypeOK, Labels
<1>3. ~ overlapped => Stage(i) /\ \A j \in Invocations : j # i => pc[j] = "idle"
  BY DEF IInv, Tracked
<1>4. Tracked'
  <2> SUFFICES ASSUME ~ overlapped, NEW j \in Invocations, pc'[j] # "idle"
               PROVE  Stage(j)' /\ \A k \in Invocations : k # j => pc'[k] = "idle"
    BY DEF Tracked
  <2>1. j = i
    BY <1>1, <1>3
  <2> QED
    BY <1>1, <1>3, <2>1
<1>5. Readable'
  <2> SUFFICES ASSUME ~ torn' PROVE Readable'
    BY DEF Readable
  <2>1. CASE /\ label = "write" /\ file' = Blank
             /\ \A j \in Invocations : pc[j] # "write"
    BY <1>1, <2>1 DEF Readable
  <2>2. CASE label # "write" /\ ~ torn /\ pc[i] # "write" /\ file' = file
    BY <1>1, <2>2 DEF IInv, Readable
  <2>3. CASE /\ label # "write" /\ ~ torn /\ pc[i] = "write"
             /\ file = Blank => file' \in Defaults
    BY <1>1, <2>3 DEF IInv, Readable
  <2> QED
    BY <2>1, <2>2, <2>3
<1> QED
  BY <1>2, <1>4, <1>5 DEF IInv

-----------------------------------------------------------------------------
LEMMA BeginKeeps ==
  ASSUME IInv, NEW i \in Invocations, NEW kind \in Kinds, NEW args \in Defaults,
         NEW env \in EnvTokens, Begin(i, kind, args, env)
  PROVE  IInv'
<1> DEFINE given == [args EXCEPT !.token = Or(@, env)]
           c == [kind |-> kind, env |-> env, used |-> Empty, config |-> Empty, given |-> given]
<1>1. given \in Defaults
  <2>1. Or(args.token, env) \in Tokens \cup {None}
    BY ConfigAssumption DEF Or, Defaults
  <2> QED
    BY <2>1 DEF Defaults
<1> HIDE DEF given
<1>2. c \in Commands
  BY <1>1, EmptyDefaults DEF Commands
<1>3. Continue(i, "load", c)
  BY DEF Begin, given
<1> HIDE DEF c
<1>4. /\ pc' \in [Invocations -> Labels] /\ pc'[i] = "load"
      /\ command' \in [Invocations -> Commands \cup {None}]
      /\ \A j \in Invocations : j # i => pc'[j] = pc[j] /\ command'[j] = command[j]
      /\ \A j \in Invocations : pc'[j] # "idle" => command'[j] \in Commands
  BY <1>2, <1>3, Continuing DEF IInv, Labels
<1>5. /\ pc[i] = "idle" /\ UNCHANGED <<file, kills, torn>>
      /\ overlapped' \in BOOLEAN /\ (~ overlapped' => Idle)
  BY DEF Begin, IInv, TypeOK
<1>6. TypeOK'
  BY <1>4, <1>5 DEF IInv, TypeOK, Labels
<1>7. Tracked'
  <2> SUFFICES ASSUME ~ overlapped' PROVE Tracked'
    BY DEF Tracked
  <2>1. \A j \in Invocations : pc'[j] # "idle" => j = i
    BY <1>4, <1>5 DEF Idle
  <2>2. Stage(i)'
    BY <1>4 DEF Stage
  <2> QED
    BY <2>1, <2>2 DEF Tracked
<1>8. Readable'
  BY <1>4, <1>5 DEF IInv, Readable
<1> QED
  BY <1>6, <1>7, <1>8 DEF IInv

LEMMA LoadKeeps ==
  ASSUME IInv, NEW i \in Invocations, Load(i)
  PROVE  IInv'
<1> DEFINE c == command[i]
           used == Resolved(c.given, file)
<1>1. /\ pc[i] = "load" /\ UNCHANGED <<file, kills, overlapped, torn>>
      /\ torn \in BOOLEAN /\ file \in Defaults \cup Unreadable /\ kills \in 0 .. MaxKills /\ c \in Commands
  BY DEF Load, IInv, TypeOK
<1>2. CASE Goto(i, "idle")
  BY <1>1, <1>2, Stepping DEF Goto, Labels
<1>3. CASE ~ Goto(i, "idle")
  <2>1. /\ file \notin Unreadable /\ used.token # None
        /\ Continue(i, AfterLoad(c.kind), [c EXCEPT !.used = used])
    BY <1>3 DEF Load
  <2>2. file \in Defaults /\ c.given \in Defaults
    BY <1>1, <2>1 DEF Commands
  <2>3. used \in Defaults /\ (c.given.token # None => used.token = c.given.token)
    BY <2>2, Resolving
  <2> HIDE DEF used
  <2>4. PICK d \in Commands : d = [c EXCEPT !.used = used]
    BY <1>1, <2>3 DEF Commands
  <2>5. d.used = used /\ d.given = c.given /\ d.kind = c.kind
    BY <1>1, <2>4 DEF Commands
  <2>6. PICK label \in {"remember", "connect"} : label = AfterLoad(c.kind)
    BY DEF AfterLoad
  <2>7. pc'[i] = label /\ command'[i] = d
    BY <2>1, <2>4, <2>6, Continuing DEF IInv, Labels
  <2>8. Stage(i)'
    BY <1>1, <2>1, <2>2, <2>3, <2>5, <2>6, <2>7 DEF Stage, used
  <2> QED
    BY <1>1, <2>1, <2>2, <2>4, <2>6, <2>8, Stepping DEF Labels
<1> QED
  BY <1>2, <1>3

LEMMA ConnectKeeps ==
  ASSUME IInv, NEW i \in Invocations, Connected(i) \/ NotConnected(i)
  PROVE  IInv'
<1>1. /\ pc[i] = "connect" /\ UNCHANGED <<file, kills, overlapped, torn>>
      /\ torn \in BOOLEAN /\ file \in Defaults \cup Unreadable /\ kills \in 0 .. MaxKills /\ command[i] \in Commands
  BY DEF Connected, NotConnected, IInv, TypeOK
<1>2. CASE Goto(i, "idle")
  BY <1>1, <1>2, Stepping DEF Goto, Labels
<1>3. CASE Connected(i) /\ command[i].kind \notin Starts
  <2>1. Continue(i, "remember", command[i])
    BY <1>3 DEF Connected, Goto
  <2>2. pc'[i] = "remember" /\ command'[i] = command[i]
    BY <1>1, <2>1, Continuing DEF IInv, Labels
  <2>3. Stage(i) => Stage(i)'
    BY <1>1, <1>3, <2>2 DEF Stage
  <2> QED
    BY <1>1, <2>1, <2>3, Stepping DEF Labels
<1> QED
  BY <1>2, <1>3 DEF Connected, NotConnected

LEMMA RememberKeeps ==
  ASSUME IInv, NEW i \in Invocations, Remember(i)
  PROVE  IInv'
<1> DEFINE c == command[i]
           new == Resolved(c.given, file)
<1>1. /\ pc[i] = "remember" /\ UNCHANGED <<file, kills, overlapped, torn>>
      /\ torn \in BOOLEAN /\ file \in Defaults \cup Unreadable /\ kills \in 0 .. MaxKills
      /\ c \in Commands /\ c.given \in Defaults
  BY DEF Remember, IInv, TypeOK, Commands
<1>2. AfterSave(i) \in {"spawn", "idle"} /\ (AfterSave(i) = "spawn" => c.kind \in Starts)
  BY DEF AfterSave
<1>3. CASE c.given = Empty /\ Goto(i, AfterSave(i))
  <2>1. pc'[i] = AfterSave(i) /\ (AfterSave(i) # "idle" => command'[i] = c)
    BY <1>1, <1>2, <1>3, Continuing DEF Goto, IInv, Labels
  <2>2. Stage(i) /\ AfterSave(i) # "idle" => Stage(i)'
    BY <1>1, <1>2, <1>3, <2>1, Resolving DEF Stage
  <2> QED
    BY <1>1, <1>2, <1>3, <2>2, Stepping DEF Goto, Labels
<1>4. CASE Goto(i, "idle")
  BY <1>1, <1>4, Stepping DEF Goto, Labels
<1>5. CASE /\ file \notin Unreadable
           /\ Continue(i, IF new = file THEN AfterSave(i) ELSE "truncate", [c EXCEPT !.config = new])
  <2>1. PICK label \in {"spawn", "idle", "truncate"} :
          /\ Continue(i, label, [c EXCEPT !.config = new])
          /\ label # "truncate" => new = file
          /\ label = "spawn" => c.kind \in Starts
    BY <1>2, <1>5
  <2>2. new \in Defaults
    BY <1>1, <1>5, Resolving
  <2> HIDE DEF new
  <2>3. PICK d \in Commands : d = [c EXCEPT !.config = new]
    BY <1>1, <2>2 DEF Commands
  <2>4. d.config = new /\ d.used = c.used /\ d.given = c.given /\ d.kind = c.kind
    BY <1>1, <2>3 DEF Commands
  <2>5. pc'[i] = label /\ (label # "idle" => command'[i] = d)
    BY <2>1, <2>3, Continuing DEF IInv, Labels
  <2>6. Stage(i) /\ label # "idle" => Stage(i)'
    BY <1>1, <2>1, <2>4, <2>5 DEF Stage, new
  <2> QED
    BY <1>1, <2>1, <2>3, <2>6, Stepping DEF Labels
<1> QED
  BY <1>3, <1>4, <1>5 DEF Remember

LEMMA SaveKeeps ==
  ASSUME IInv, NEW i \in Invocations, Truncate(i) \/ Write(i)
  PROVE  IInv'
<1> DEFINE c == command[i]
<1>1. /\ pc[i] \in {"truncate", "write"} /\ UNCHANGED <<kills, overlapped>>
      /\ torn' \in BOOLEAN /\ kills \in 0 .. MaxKills /\ c \in Commands /\ c.config \in Defaults
  BY DEF Truncate, Write, IInv, TypeOK, Commands
<1>2. CASE Truncate(i)
  <2>1. /\ Continue(i, "write", c) /\ file' = Blank /\ pc[i] = "truncate"
        /\ ~ torn' => \A j \in Invocations : pc[j] # "write"
    BY <1>2 DEF Truncate, Goto
  <2>2. pc'[i] = "write" /\ command'[i] = c
    BY <1>1, <2>1, Continuing DEF IInv, Labels
  <2>3. Stage(i) => Stage(i)'
    BY <2>1, <2>2 DEF Stage
  <2> QED
    BY <1>1, <2>1, <2>3, Stepping DEF Labels, Unreadable
<1>3. CASE Write(i)
  <2>1. PICK label \in {"spawn", "idle"} :
          Continue(i, label, c) /\ (label = "spawn" => c.kind \in Starts)
    BY <1>3 DEF Write, Goto, AfterSave
  <2>2. /\ pc[i] = "write" /\ torn' = torn /\ file' \in {c.config, Garbled}
        /\ file = Blank => file' = c.config
    BY <1>3 DEF Write
  <2>3. pc'[i] = label /\ (label # "idle" => command'[i] = c)
    BY <1>1, <2>1, Continuing DEF IInv, Labels
  <2>4. Stage(i) => file' = c.config
    BY <2>2 DEF Stage
  <2>5. Stage(i) /\ label # "idle" => Stage(i)'
    BY <1>1, <2>1, <2>2, <2>3, <2>4 DEF Stage
  <2> QED
    BY <1>1, <2>1, <2>2, <2>4, <2>5, Stepping DEF Labels, Unreadable
<1> QED
  BY <1>2, <1>3

LEMMA SpawnKeeps ==
  ASSUME IInv, NEW i \in Invocations, StartRefused(i) \/ ChildLoad(i)
  PROVE  IInv'
<1> DEFINE c == command[i]
           token == Or(c.env, file.token)
<1>1. /\ pc[i] = "spawn" /\ UNCHANGED <<file, kills, overlapped, torn>>
      /\ torn \in BOOLEAN /\ file \in Defaults \cup Unreadable /\ kills \in 0 .. MaxKills /\ c \in Commands
  BY DEF StartRefused, ChildLoad, IInv, TypeOK
<1>2. CASE Goto(i, "idle")
  BY <1>1, <1>2, Stepping DEF Goto, Labels
<1>3. CASE file \notin Unreadable /\ Continue(i, "connect", [c EXCEPT !.used.token = token])
  <2>1. token \in Tokens \cup {None}
    BY <1>1, <1>3, ConfigAssumption DEF Or, Commands, Defaults
  <2> HIDE DEF token
  <2>2. PICK d \in Commands : d = [c EXCEPT !.used.token = token]
    <3>1. c.used \in Defaults
      BY <1>1 DEF Commands
    <3>2. [c.used EXCEPT !.token = token] \in Defaults
      BY <2>1, <3>1 DEF Defaults
    <3> QED
      BY <1>1, <3>2 DEF Commands
  <2>3. d.kind = c.kind
    BY <1>1, <2>2 DEF Commands
  <2>4. pc'[i] = "connect" /\ command'[i] = d
    BY <1>3, <2>2, Continuing DEF IInv, Labels
  <2>5. c.kind \in Starts => Stage(i)'
    BY <2>3, <2>4 DEF Stage
  <2> QED
    BY <1>1, <1>3, <2>2, <2>5, Stepping DEF Labels, Stage
<1> QED
  BY <1>2, <1>3 DEF StartRefused, ChildLoad

LEMMA KillKeeps ==
  ASSUME IInv, NEW i \in Invocations, Kill(i)
  PROVE  IInv'
<1>1. /\ pc[i] # "idle" /\ UNCHANGED <<file, overlapped>> /\ kills' \in 0 .. MaxKills
      /\ file \in Defaults \cup Unreadable /\ Goto(i, "idle")
  BY ConfigAssumption DEF Kill, IInv, TypeOK
<1>2. torn' = (torn \/ pc[i] = "write") /\ torn \in BOOLEAN
  BY DEF Kill, IInv, TypeOK
<1>3. torn' \in BOOLEAN /\ (~ torn' => ~ torn /\ pc[i] # "write")
  BY <1>2
<1> QED
  BY <1>1, <1>3, Stepping DEF Goto, Labels

LEMMA StepKeeps ==
  ASSUME IInv, [Next]_vars
  PROVE  IInv'
<1>1. CASE UNCHANGED vars
  BY <1>1 DEF vars, IInv, TypeOK, Tracked, Readable, Stage
<1>2. CASE Next
  BY <1>2, BeginKeeps, LoadKeeps, ConnectKeeps, RememberKeeps, SaveKeeps, SpawnKeeps, KillKeeps
  DEF Next, Step
<1> QED
  BY <1>1, <1>2

-----------------------------------------------------------------------------
(* Every state of the commands and the file keeps the invariant.           *)
THEOREM Invariance == Spec => []IInv
BY Initially, StepKeeps, PTL DEF Spec

(* load_saved_config, resolution and remember_defaults keep the types of   *)
(* the values.                                                             *)
THEOREM TypeCorrect == Spec => []TypeOK
<1>1. IInv => TypeOK
  BY DEF IInv
<1> QED
  BY <1>1, Invariance, PTL

(* However commands overlap and wherever they are killed, the config       *)
(* parses while none has it open, unless write_private_file was killed, or *)
(* met another, between opening the file and writing it.                   *)
THEOREM ReadableWhenClosedHolds == Spec => []ReadableWhenClosed
<1>1. IInv => ReadableWhenClosed
  BY UnreadableAssumption DEF IInv, Readable, ReadableWhenClosed
<1> QED
  BY <1>1, Invariance, PTL

(* The background process of `client start` or `server start` finds a      *)
(* token, and the given one, although it is passed none.                   *)
THEOREM ChildUsesItsTokenHolds == Spec => ChildUsesItsToken
<1>1. IInv /\ [Next]_vars =>
        [\A i \in Invocations : ChildLoad(i) /\ ~ overlapped =>
           LET given == command[i].given.token IN
           /\ pc'[i] = "connect"
           /\ given # None /\ command[i].env \in {None, given} =>
                command'[i].used.token = given]_vars
  <2> SUFFICES ASSUME IInv, NEW i \in Invocations, ChildLoad(i), ~ overlapped
               PROVE  /\ pc'[i] = "connect"
                      /\ LET given == command[i].given.token IN
                         given # None /\ command[i].env \in {None, given} =>
                           command'[i].used.token = given
    OBVIOUS
  <2> DEFINE c == command[i]
             token == Or(c.env, file.token)
  <2>1. pc[i] = "spawn" /\ Stage(i) /\ c \in Commands /\ c.used \in Defaults
    BY DEF ChildLoad, IInv, TypeOK, Tracked, Commands
  <2>2. /\ file \in Defaults /\ file.token = c.used.token /\ c.used.token # None
        /\ c.given.token # None => c.used.token = c.given.token
    BY <2>1 DEF Stage
  <2>3. token # None
    BY <2>2 DEF Or
  <2>4. Continue(i, "connect", [c EXCEPT !.used.token = token])
    BY <2>2, <2>3, UnreadableAssumption DEF ChildLoad
  <2>5. pc'[i] = "connect" /\ command'[i] = [c EXCEPT !.used.token = token]
    BY <2>4 DEF Continue, IInv, TypeOK
  <2>6. command'[i].used.token = token
    BY <2>1, <2>5 DEF Commands, Defaults
  <2> QED
    BY <2>2, <2>5, <2>6 DEF Or
<1> QED
  BY <1>1, Invariance, PTL DEF Spec, ChildUsesItsToken

(* remember_defaults, which saves only what was given, leaves what the     *)
(* command used.                                                           *)
THEOREM RemembersLastSuccessHolds == Spec => RemembersLastSuccess
<1>1. IInv /\ [Next]_vars =>
        [\A i \in Invocations :
           /\ pc[i] # "idle" /\ command[i].kind \notin Starts /\ ~ overlapped
           /\ Remember(i) \/ Write(i)
           /\ pc'[i] = "idle"
           => /\ file'.token = command[i].used.token
              /\ command[i].kind \notin Serves => file'.server = command[i].used.server]_vars
  <2> SUFFICES ASSUME IInv, NEW i \in Invocations, ~ overlapped, pc[i] # "idle",
                      command[i].kind \notin Starts, Remember(i) \/ Write(i), pc'[i] = "idle"
               PROVE  file' = command[i].used
    OBVIOUS
  <2> DEFINE c == command[i]
             new == Resolved(c.given, file)
  <2>1. Stage(i) /\ c.given \in Defaults
    BY DEF IInv, TypeOK, Tracked, Commands
  <2>2. CASE Write(i)
    BY <2>1, <2>2 DEF Write, Stage
  <2>3. CASE Remember(i)
    <3>1. file \in Defaults /\ c.used = new /\ file' = file
      BY <2>1, <2>3 DEF Remember, Stage
    <3>2. c.given = Empty \/ new = file
      <4> SUFFICES ASSUME c.given # Empty, new # file PROVE FALSE
        OBVIOUS
      <4>1. file \notin Unreadable
        BY <3>1, UnreadableAssumption
      <4>2. PICK d : Continue(i, "truncate", d)
        BY <2>3, <4>1 DEF Remember
      <4> QED
        BY <4>2 DEF Continue, IInv, TypeOK
    <3> QED
      BY <2>1, <3>1, <3>2, Resolving
  <2> QED
    BY <2>2, <2>3
<1> QED
  BY <1>1, Invariance, PTL DEF Spec, RemembersLastSuccess
=============================================================================
