----------------------------- MODULE SavedConfig -----------------------------
(***************************************************************************)
(* The saved defaults: which commands read them, and when they save what   *)
(* they were given.  `client` and `test` connect first, `server` opens the *)
(* wheel and binds its socket first; `client start` and `server start`     *)
(* remember first and then spawn a background process, which takes its     *)
(* token from its environment or the file.  The file is replaced in two    *)
(* steps, truncation and write; a command may be killed between any two of *)
(* its steps.  A command is idle again when it has done with the file.     *)
(***************************************************************************)
EXTENDS Naturals, FiniteSets

CONSTANTS Invocations,     \* commands that may run at once
          Servers, Tokens, \* values a user may give
          EnvTokens,       \* values of REMOTE_STEER_TOKEN, or None
          Blank, Garbled,  \* a truncated file; one written by two commands at once
          MaxKills,        \* bound: commands killed
          None

Unreadable == {Blank, Garbled}
Kinds == {"client", "test", "server", "client start", "server start"}
Starts == {"client start", "server start"}
Serves == {"server", "server start"}

ASSUME ConfigAssumption ==
  /\ MaxKills \in Nat
  /\ EnvTokens \subseteq Tokens \cup {None}
  /\ (Unreadable \cup {None}) \cap (Servers \cup Tokens) = {}

Defaults == [server : Servers \cup {None}, token : Tokens \cup {None}]
ASSUME UnreadableAssumption == Unreadable \cap Defaults = {}
Empty == [server |-> None, token |-> None]

(* A command under way: REMOTE_STEER_TOKEN, what it was given as argument  *)
(* or in its environment, what it resolved to, the config it saves.        *)
Commands == [kind : Kinds, env : EnvTokens \cup {None},
             given : Defaults, used : Defaults, config : Defaults]

VARIABLES
  file,      \* the config: its defaults, or one of Unreadable
  pc,        \* [Invocations -> the next step]
  command,   \* [Invocations -> the command it executes, or None]
  kills,     \* commands killed so far
  overlapped,\* history: whether a command was given while another was under
             \* way, since last none was
  torn       \* history: whether the last save was cut short by a kill, or met
             \* another while both had the file open

vars == <<file, pc, command, kills, overlapped, torn>>

(* A given value, trimmed and not empty, before a saved one.               *)
Or(a, b) == IF a # None THEN a ELSE b
(* A slip: the values change places.                                       *)
Resolved_Swapped(g, saved) ==
  [server |-> Or(g.token, saved.token), token |-> Or(g.server, saved.server)]

Resolved(g, saved) ==
  [server |-> Or(g.server, saved.server), token |-> Or(g.token, saved.token)]

Init ==
  /\ file = Empty
  /\ pc = [i \in Invocations |-> "idle"]
  /\ command = [i \in Invocations |-> None]
  /\ kills = 0 /\ overlapped = FALSE /\ torn = FALSE

Idle == \A i \in Invocations : pc[i] = "idle"

(* Command i goes on with the step `label`, as c; when that is "idle" it   *)
(* has done.                                                               *)
Continue(i, label, c) ==
  /\ pc' = [pc EXCEPT ![i] = label]
  /\ command' = [command EXCEPT ![i] = IF label = "idle" THEN None ELSE c]
Goto(i, label) == Continue(i, label, command[i])

(* The user gives a command with the arguments `args`; an argument goes    *)
(* before the environment variable.  The server's have no server address.  *)
Begin(i, kind, args, env) ==
  /\ pc[i] = "idle" /\ overlapped' = ~ Idle
  /\ kind \in Serves => args.server = None
  /\ Continue(i, "load", [kind |-> kind, env |-> env, used |-> Empty, config |-> Empty,
                          given |-> [args EXCEPT !.token = Or(@, env)]])
  /\ UNCHANGED <<file, kills, torn>>

(* A slip: start spawns before it remembers.                               *)
AfterLoad_SpawnFirst(kind) == IF kind \in Starts THEN "spawn" ELSE "connect"

AfterLoad(kind) == IF kind \in Starts THEN "remember" ELSE "connect"

(* load_saved_config and the resolution; a command that lacks a value, or  *)
(* cannot parse the file, ends here.  `test` without any server tests the  *)
(* wheel of this machine, without a token.                                 *)
Load(i) ==
  /\ pc[i] = "load"
  /\ LET c == command[i]
         used == Resolved(c.given, file)
     IN IF file \in Unreadable \/ used.token = None \/ (c.kind \notin Serves /\ used.server = None)
          THEN Goto(i, "idle")
          ELSE Continue(i, AfterLoad(c.kind), [c EXCEPT !.used = used])
  /\ UNCHANGED <<file, kills, overlapped, torn>>

(* The server answers the hello; `server` has opened the wheel and bound   *)
(* its socket.  A background process does not remember.                    *)
Connected(i) ==
  /\ pc[i] = "connect"
  /\ Goto(i, IF command[i].kind \in Starts THEN "idle" ELSE "remember")
  /\ UNCHANGED <<file, kills, overlapped, torn>>

(* It never does; the command ends or is stopped.                          *)
NotConnected(i) ==
  /\ pc[i] = "connect" /\ Goto(i, "idle")
  /\ UNCHANGED <<file, kills, overlapped, torn>>

AfterSave(i) == IF command[i].kind \in Starts THEN "spawn" ELSE "idle"

(* A slip: only the first success is remembered.                           *)
Remember_First(i) ==
  /\ pc[i] = "remember"
  /\ LET c == command[i] IN
     IF c.given = Empty \/ file # Empty THEN Goto(i, AfterSave(i))
     ELSE Continue(i, "truncate", [c EXCEPT !.config = Resolved(c.given, file)])
  /\ UNCHANGED <<file, kills, overlapped, torn>>

(* A slip: the file is opened, and truncated, before it is compared.       *)
Remember_OpensFirst(i) ==
  /\ pc[i] = "remember"
  /\ LET c == command[i]
         new == Resolved(c.given, file)
     IN IF c.given = Empty \/ file \in Unreadable THEN Goto(i, AfterSave(i)) /\ UNCHANGED file
        ELSE /\ Continue(i, IF new = file THEN AfterSave(i) ELSE "write", [c EXCEPT !.config = new])
             /\ file' = Blank
  /\ UNCHANGED <<kills, overlapped, torn>>

(* remember_defaults: only what was given is remembered; the file is read  *)
(* once more and written when it changes.                                  *)
Remember(i) ==
  /\ pc[i] = "remember"
  /\ LET c == command[i]
         new == Resolved(c.given, file)
     IN IF c.given = Empty THEN Goto(i, AfterSave(i))
        ELSE IF file \in Unreadable THEN Goto(i, "idle")
        ELSE Continue(i, IF new = file THEN AfterSave(i) ELSE "truncate", [c EXCEPT !.config = new])
  /\ UNCHANGED <<file, kills, overlapped, torn>>

(* write_private_file: open with truncate, then write from the start.      *)
Truncate(i) ==
  /\ pc[i] = "truncate"
  /\ file' = Blank /\ Goto(i, "write")
  /\ torn' = \E j \in Invocations : pc[j] = "write"
  /\ UNCHANGED <<kills, overlapped>>

(* What another command wrote meanwhile is overwritten; when it is longer  *)
(* its tail remains.                                                       *)
Write(i) ==
  /\ pc[i] = "write"
  /\ LET new == command[i].config IN
     file' \in {new} \cup (IF file \in {Blank, new} THEN {} ELSE {Garbled})
  /\ Goto(i, AfterSave(i))
  /\ UNCHANGED <<kills, overlapped, torn>>

(* start_managed refuses: a background process runs already.               *)
StartRefused(i) ==
  /\ pc[i] = "spawn" /\ Goto(i, "idle")
  /\ UNCHANGED <<file, kills, overlapped, torn>>

(* The background process is passed the address; it inherits the           *)
(* environment and resolves its token itself.                              *)
ChildLoad(i) ==
  /\ pc[i] = "spawn"
  /\ LET c == command[i] IN
     IF file \in Unreadable \/ Or(c.env, file.token) = None
       THEN Goto(i, "idle")
       ELSE Continue(i, "connect", [c EXCEPT !.used.token = Or(c.env, file.token)])
  /\ UNCHANGED <<file, kills, overlapped, torn>>

(* Ctrl+C, or the machine goes down.                                       *)
Kill(i) ==
  /\ pc[i] # "idle" /\ kills < MaxKills
  /\ kills' = kills + 1 /\ Goto(i, "idle")
  /\ torn' = (torn \/ pc[i] = "write")
  /\ UNCHANGED <<file, overlapped>>

Step(i) ==
  \/ \E kind \in Kinds, args \in Defaults, env \in EnvTokens : Begin(i, kind, args, env)
  \/ Load(i) \/ Connected(i) \/ NotConnected(i)
  \/ Remember(i) \/ Truncate(i) \/ Write(i)
  \/ StartRefused(i) \/ ChildLoad(i) \/ Kill(i)

Next == \E i \in Invocations : Step(i)
Spec == Init /\ [][Next]_vars

-----------------------------------------------------------------------------
(* Every variable holds a value of its kind.                               *)
TypeOK ==
  /\ file \in Defaults \cup Unreadable
  /\ pc \in [Invocations -> {"idle", "load", "connect", "remember", "truncate", "write", "spawn"}]
  /\ command \in [Invocations -> Commands \cup {None}]
  /\ \A i \in Invocations : pc[i] # "idle" => command[i] \in Commands
  /\ kills \in 0 .. MaxKills /\ overlapped \in BOOLEAN /\ torn \in BOOLEAN

(* When a command that reached its server, or a server that took its       *)
(* socket, ends by itself, the file holds what it used ("After the first   *)
(* successful connection ... remembers the server and token"), although    *)
(* only the given values are saved; as long as no other command is given   *)
(* before it ends.                                                         *)
RemembersLastSuccess ==
  [][\A i \in Invocations :
       /\ pc[i] # "idle" /\ command[i].kind \notin Starts /\ ~ overlapped
       /\ Remember(i) \/ Write(i)
       /\ pc'[i] = "idle"
       => /\ file'.token = command[i].used.token
          /\ command[i].kind \notin Serves => file'.server = command[i].used.server]_vars

(* A background process is not passed a token.  All the same it has one,   *)
(* and the one its `start` was given, because start saves it first; unless *)
(* REMOTE_STEER_TOKEN, which the child inherits, has another value, or     *)
(* another command saves its own.                                          *)
ChildUsesItsToken ==
  [][\A i \in Invocations : ChildLoad(i) /\ ~ overlapped =>
       LET given == command[i].given.token IN
       /\ pc'[i] = "connect"
       /\ given # None /\ command[i].env \in {None, given} => command'[i].used.token = given]_vars

(* While no command has the file open it can be parsed, so that no command *)
(* fails on it, however many commands are under way and wherever others    *)
(* were killed; unless the last save was killed between opening the file   *)
(* and writing it, or two had it open at once.                             *)
ReadableWhenClosed ==
  (\A i \in Invocations : pc[i] # "write") /\ ~ torn => file \notin Unreadable
=============================================================================
