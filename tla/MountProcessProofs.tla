------------------------- MODULE MountProcessProofs --------------------------
(***************************************************************************)
(* Proofs about MountProcess, for every set of command lines.              *)
(***************************************************************************)
EXTENDS MountProcess, TLAPS

(* What fuse_setup is told of --version and -f, and of what main has.      *)
Passed ==
  /\ param.version => "-V" \in kept
  /\ pc \in {"parse", "initlib"} => data = "unset"
  /\ pc \in {"mkdir", "setup"} => data = "lib" \/ param.version
  /\ pc \in {"loop", "teardown"} => data = "lib"
  /\ pc = "rmdir" => data = "deleted"
  /\ pc \in {"teardown", "rmdir"} => code \in {0, 8}

(* The target as main has it before it daemonizes.                         *)
Start == IF param.mountpoint = "absolute" THEN Fixed ELSE "under start"

(* The working directory changes only in fuse_setup, and only without -f.  *)
(* Until then nothing is mounted, and main makes at most its target.       *)
Whereabouts ==
  /\ cwd = "under start"
       \/ (cwd = "under root" /\ "-f" \notin kept
             /\ pc \in {"loop", "teardown", "rmdir", "exited"})
  /\ mount # NULL => pc \in {"loop", "teardown"}
  /\ made # {} =>
       /\ pc \in {"setup", "loop", "teardown", "rmdir"} \/ (pc = "exited" /\ code \in {0, 7, 8})
       /\ param.automake /\ param.mountpoint # NULL
  /\ made \subseteq {Start}

ProcessInv == TypeOK /\ Passed /\ Whereabouts /\ CleansUp

-----------------------------------------------------------------------------
(* Nothing is made, mounted or passed on at first.                         *)
LEMMA ProcessInit == Init => ProcessInv
<1>0. 0 \in 0 .. 2
  OBVIOUS
<1> SUFFICES ASSUME Init PROVE ProcessInv
  OBVIOUS
<1> USE DEF Init
<1>1. args \in Seq(Arg)
  BY MountProcessAssumption
<1>2. param \in [help : BOOLEAN, version : BOOLEAN, automake : BOOLEAN, syslog : BOOLEAN,
                strArgCount : 0 .. 2, fileName : Word \cup {NULL},
                mountpoint : Word \cup {NULL}]
  BY <1>0
<1>3. cwd \in Place \ {Fixed}
  BY DEF Place, Fixed
<1>4. TypeOK
  BY <1>1, <1>2, <1>3 DEF TypeOK
<1>5. Passed /\ Whereabouts /\ CleansUp
  BY DEF Passed, Whereabouts, CleansUp
<1> QED BY <1>4, <1>5 DEF ProcessInv

(* An argument is kept or discarded, and changes param at most.            *)
LEMMA ArgumentKept ==
  ASSUME TypeOK, Passed, NEW arg \in Arg, process_arg(arg)
  PROVE  /\ kept' \subseteq Arg /\ kept \subseteq kept'
         /\ param' \in [help : BOOLEAN, version : BOOLEAN, automake : BOOLEAN, syslog : BOOLEAN,
                        strArgCount : 0 .. 2, fileName : Word \cup {NULL},
                        mountpoint : Word \cup {NULL}]
         /\ param'.version => "-V" \in kept'
<1> USE DEF TypeOK, Passed, process_arg, Keep, Discard
<1>1. CASE arg = "-h" /\ param' = [param EXCEPT !.help = TRUE] /\ Discard
  BY <1>1
<1>2. CASE arg = "-V" /\ Version
  BY <1>2 DEF Version
<1>3. CASE arg = "--automount" /\ param' = [param EXCEPT !.automake = TRUE] /\ Discard
  BY <1>3
<1>4. CASE arg = "--syslog" /\ param' = [param EXCEPT !.syslog = TRUE] /\ Discard
  BY <1>4
<1>5. CASE arg = "-f" /\ UNCHANGED param /\ Keep(arg)
  BY <1>5
<1>6. CASE /\ arg \in Word /\ param.strArgCount = 0
           /\ param' = [param EXCEPT !.strArgCount = 1, !.fileName = arg]
           /\ Discard
  <2>1. param' \in [help : BOOLEAN, version : BOOLEAN, automake : BOOLEAN, syslog : BOOLEAN,
                    strArgCount : 0 .. 2, fileName : Word \cup {NULL},
                    mountpoint : Word \cup {NULL}]
    <3>1. 1 \in 0 .. 2 /\ arg \in Word \cup {NULL}
      BY <1>6
    <3> QED BY <1>6, <3>1
  <2>2. param'.version = param.version
    BY <1>6
  <2> QED BY <1>6, <2>1, <2>2
<1>7. CASE /\ arg \in Word /\ param.strArgCount > 0 /\ ~TooMany
           /\ param' = [param EXCEPT !.strArgCount = @ + 1, !.mountpoint = arg]
           /\ Keep(arg)
  <2>1. param.strArgCount + 1 \in 0 .. 2
    BY <1>7 DEF TooMany
  <2>2. param' \in [help : BOOLEAN, version : BOOLEAN, automake : BOOLEAN, syslog : BOOLEAN,
                    strArgCount : 0 .. 2, fileName : Word \cup {NULL},
                    mountpoint : Word \cup {NULL}]
    BY <1>7, <2>1
  <2>3. param'.version = param.version
    BY <1>7
  <2> QED BY <1>7, <2>2, <2>3
<1> QED BY <1>1, <1>2, <1>3, <1>4, <1>5, <1>6, <1>7

(* Every step of main and of the users keeps the invariant.                *)
LEMMA ProcessNext == ProcessInv /\ [Next]_vars => ProcessInv'
<1> SUFFICES ASSUME ProcessInv, [Next]_vars PROVE ProcessInv'
  OBVIOUS
<1> USE MountProcessAssumption DEF ProcessInv
<1>1. CASE Parse
  <2>1. Head(args) \in Arg /\ args' \in Seq(Arg)
    BY <1>1 DEF Parse, TypeOK
  <2>2. made = {} /\ pc = "parse" /\ UNCHANGED <<data, cwd, folder, made, mount>>
    BY <1>1 DEF Parse, Whereabouts
  <2>3. CASE process_arg(Head(args)) /\ UNCHANGED <<pc, code>>
    <3>1. TypeOK' /\ Passed'
      BY <2>1, <2>2, <2>3, ArgumentKept DEF TypeOK, Passed
    <3>2. Whereabouts' /\ CleansUp'
      BY <2>1, <2>2, <2>3, ArgumentKept DEF Whereabouts, CleansUp
    <3> QED BY <3>1, <3>2
  <2>4. CASE Exit(2) /\ UNCHANGED <<kept, param>>
    <3>1. TypeOK'
      BY <2>1, <2>2, <2>4 DEF Exit, TypeOK
    <3>2. Passed' /\ Whereabouts' /\ CleansUp'
      BY <2>2, <2>4 DEF Exit, Passed, Whereabouts, CleansUp, Start
    <3> QED BY <3>1, <3>2
  <2>5. \/ process_arg(Head(args)) /\ UNCHANGED <<pc, code>>
        \/ Exit(2) /\ UNCHANGED <<kept, param>>
    BY <1>1 DEF Parse
  <2> QED BY <2>3, <2>4, <2>5
<1>2. CASE Check
  <2>1. /\ pc = "parse" /\ made = {}
        /\ UNCHANGED <<args, kept, param, data, cwd, folder, made, mount>>
    BY <1>2 DEF Check, Whereabouts
  <2>2. data = "unset" /\ (param.version => "-V" \in kept)
    BY <2>1 DEF Passed
  <2>3. \/ pc' = "exited" /\ code' \in {3, 4}
        \/ pc' = "mkdir" /\ param.version /\ code' = code
        \/ pc' = "initlib" /\ code' = code
    BY <1>2 DEF Check, Exit
  <2>4. TypeOK'
    BY <2>1, <2>3 DEF TypeOK
  <2>5. Passed'
    BY <2>1, <2>2, <2>3 DEF Passed
  <2>6. Whereabouts' /\ CleansUp'
    BY <2>1, <2>2, <2>3 DEF Whereabouts, CleansUp, Start
  <2> QED BY <2>4, <2>5, <2>6
<1>3. CASE InitLib
  <2>1. /\ pc = "initlib" /\ made = {}
        /\ UNCHANGED <<args, kept, param, cwd, folder, made, mount>>
    BY <1>3 DEF InitLib, Whereabouts
  <2>2. \/ data' = "lib" /\ pc' = "mkdir" /\ code' = code
        \/ pc' = "exited" /\ code' = ABORT /\ data' = data
    BY <1>3 DEF InitLib, Exit
  <2>3. data = "unset" /\ (param.version => "-V" \in kept)
    BY <2>1 DEF Passed
  <2>4. TypeOK'
    BY <2>1, <2>2 DEF TypeOK
  <2>5. Passed' /\ Whereabouts' /\ CleansUp'
    BY <2>1, <2>2, <2>3 DEF Passed, Whereabouts, CleansUp, Start
  <2> QED BY <2>4, <2>5
<1>4. CASE MakeFolder
  <2>1. cwd = "under start" /\ made = {} /\ pc = "mkdir" /\ pc' = "setup"
    BY <1>4 DEF MakeFolder, Whereabouts
  <2>2. CASE /\ param.automake /\ param.mountpoint # NULL
             /\ folder[Where(param.mountpoint)] = "absent"
    <3>1. Where(param.mountpoint) = Start /\ Start \in Place
      BY <2>1 DEF Where, Start, Place
    <3>2. /\ folder' = [folder EXCEPT ![Start] = "empty"]
          /\ made' = {Start} /\ Start' = Start
          /\ UNCHANGED <<code, args, kept, param, data, cwd, mount>>
      BY <1>4, <2>1, <2>2, <3>1 DEF MakeFolder, Start
    <3>3. folder' \in [Place -> {"absent", "empty", "full"}] /\ folder'[Start] = "empty"
      BY <3>1, <3>2 DEF TypeOK
    <3>4. TypeOK'
      BY <2>1, <3>1, <3>2, <3>3, ZenonT(30) DEF TypeOK
    <3>5. Passed' /\ Whereabouts' /\ CleansUp'
      BY <2>1, <2>2, <3>2 DEF Passed, Whereabouts, CleansUp
    <3> QED BY <3>4, <3>5
  <2>3. CASE UNCHANGED <<folder, made>>
    <3>1. UNCHANGED <<code, args, kept, param, data, cwd, mount>>
      BY <1>4 DEF MakeFolder
    <3>2. TypeOK'
      BY <2>1, <2>3, <3>1, ZenonT(30) DEF TypeOK
    <3>3. Passed' /\ Whereabouts' /\ CleansUp'
      BY <2>1, <2>3, <3>1 DEF Passed, Whereabouts, CleansUp, Start
    <3> QED BY <3>2, <3>3
  <2> QED BY <1>4, <2>2, <2>3 DEF MakeFolder
<1>5. CASE Setup
  <2>1. /\ pc = "setup" /\ pc' = "loop" /\ "-V" \notin kept
        /\ cwd' = IF "-f" \in kept THEN cwd ELSE "under root"
        /\ UNCHANGED <<code, args, kept, param, data, folder, made>>
    BY <1>5 DEF Setup
  <2>2. mount' \in Place
    BY <1>5 DEF Setup, Where, Place, Fixed, TypeOK
  <2>3. TypeOK'
    BY <2>1, <2>2, ZenonT(30) DEF TypeOK, Place, Fixed
  <2>4. Passed' /\ Whereabouts' /\ CleansUp'
    BY <2>1 DEF Passed, Whereabouts, CleansUp, Start
  <2> QED BY <2>3, <2>4
<1>6. CASE SetupFails
  <2>1. TypeOK'
    BY <1>6 DEF SetupFails, Exit, TypeOK
  <2>2. Passed' /\ Whereabouts' /\ CleansUp'
    BY <1>6 DEF SetupFails, Exit, Passed, Whereabouts, CleansUp, Start
  <2> QED BY <2>1, <2>2
<1>7. CASE LoopEnds
  <2>1. TypeOK'
    BY <1>7 DEF LoopEnds, LoopResult, TypeOK
  <2>2. Passed' /\ Whereabouts' /\ CleansUp'
    BY <1>7 DEF LoopEnds, LoopResult, Passed, Whereabouts, CleansUp, Start
  <2> QED BY <2>1, <2>2
<1>8. CASE Teardown
  <2>1. TypeOK'
    BY <1>8 DEF Teardown, TypeOK
  <2>2. Passed' /\ Whereabouts' /\ CleansUp'
    BY <1>8 DEF Teardown, Passed, Whereabouts, CleansUp, Start
  <2> QED BY <2>1, <2>2
<1>9. CASE RemoveFolder
  <2>1. pc = "rmdir" /\ pc' = "exited" /\ UNCHANGED <<code, args, kept, param, data, cwd, mount>>
    BY <1>9 DEF RemoveFolder
  <2>2. Start' = Start
    BY <2>1 DEF Start
  <2>3. CASE Removable(param.mountpoint)
    <3> DEFINE there == Where(param.mountpoint)
    <3>1. /\ folder' = [folder EXCEPT ![there] = "absent"]
          /\ made' = made \ {there}
      BY <1>9, <2>3 DEF RemoveFolder
    <3> HIDE DEF there
    <3>2. TypeOK'
      BY <2>1, <3>1, ZenonT(30) DEF TypeOK
    <3>3. "-f" \in kept \/ param.mountpoint = "absolute" => there = Start
      BY DEF Where, Start, Whereabouts, there
    <3>4. Passed' /\ Whereabouts'
      BY <2>1, <2>2, <3>1 DEF Passed, Whereabouts
    <3>5. CleansUp'
      BY <2>1, <3>1, <3>3 DEF Passed, Whereabouts, CleansUp
    <3> QED BY <3>2, <3>4, <3>5
  <2>4. CASE ~Removable(param.mountpoint) /\ UNCHANGED <<folder, made>>
    <3>1. TypeOK'
      BY <2>1, <2>4 DEF TypeOK
    <3>2. Passed' /\ Whereabouts'
      BY <2>1, <2>2, <2>4 DEF Passed, Whereabouts
    <3>3. ASSUME "-f" \in kept \/ param.mountpoint = "absolute", NEW p \in made
          PROVE  folder[p] = "full"
      <4>1. p = Where(param.mountpoint) /\ param.automake /\ param.mountpoint # NULL
        BY <2>1, <3>3 DEF Where, Start, Whereabouts
      <4>2. folder[p] # "empty"
        BY <2>4, <4>1 DEF Removable
      <4>3. p \in Place /\ folder[p] # "absent" /\ folder[p] \in {"absent", "empty", "full"}
        BY DEF TypeOK
      <4> QED BY <4>2, <4>3
    <3>4. CleansUp'
      BY <2>1, <2>4, <3>3 DEF Passed, CleansUp
    <3> QED BY <3>1, <3>2, <3>4
  <2> QED BY <1>9, <2>3, <2>4 DEF RemoveFolder
<1>10. ASSUME NEW p \in Place, UserChanges(p)
       PROVE  ProcessInv'
  <2>1. /\ pc # "exited" /\ made' \subseteq made
        /\ UNCHANGED <<pc, code, args, kept, param, data, cwd, mount>>
    BY <1>10 DEF UserChanges
  <2>2. PICK s \in {"absent", "empty", "full"} : folder' = [folder EXCEPT ![p] = s]
    BY <1>10 DEF UserChanges
  <2>3. ASSUME NEW q \in made' PROVE q \in Place /\ folder'[q] # "absent"
    <3>1. CASE q = p
      BY <1>10, <2>3, <3>1 DEF UserChanges
    <3>2. CASE q # p
      BY <2>1, <2>2, <3>2 DEF TypeOK
    <3> QED BY <3>1, <3>2
  <2>4. TypeOK'
    BY <2>1, <2>2, <2>3 DEF TypeOK
  <2>5. Passed' /\ Whereabouts' /\ CleansUp'
    BY <2>1 DEF Passed, Whereabouts, CleansUp, Start
  <2> QED BY <2>4, <2>5
<1>11. CASE UserUnmounts
  <2>1. TypeOK'
    BY <1>11 DEF UserUnmounts, TypeOK
  <2>2. Passed' /\ Whereabouts' /\ CleansUp'
    BY <1>11 DEF UserUnmounts, Passed, Whereabouts, CleansUp, Start
  <2> QED BY <2>1, <2>2
<1>12. CASE UNCHANGED vars
  <2>1. TypeOK'
    BY <1>12 DEF vars, TypeOK
  <2>2. Passed' /\ Whereabouts' /\ CleansUp'
    BY <1>12 DEF vars, Passed, Whereabouts, CleansUp, Start
  <2> QED BY <2>1, <2>2
<1> QED BY <1>1, <1>2, <1>3, <1>4, <1>5, <1>6, <1>7, <1>8, <1>9, <1>10, <1>11, <1>12
        DEF Next, Main

(* The invariant at every step.                                            *)
LEMMA ProcessInvariant == Spec => []ProcessInv
BY ProcessInit, ProcessNext, PTL DEF Spec

-----------------------------------------------------------------------------
(* Every variable of the process keeps its type.                           *)
THEOREM ProcessTypes == Spec => []TypeOK
<1>1. ProcessInv => TypeOK
  BY DEF ProcessInv
<1> QED BY <1>1, ProcessInvariant, PTL

(* fuse_loop runs only with the library object main built, whatever the    *)
(* command line is.                                                        *)
THEOREM LoopHasLibrary == Spec => []ServesLibrary
<1>1. ProcessInv => ServesLibrary
  BY DEF ProcessInv, Passed, ServesLibrary
<1> QED BY <1>1, ProcessInvariant, PTL

(* Every way out but a failed fuse_setup deletes the library object, and   *)
(* leaves of the folder main made only what somebody uses, when its name   *)
(* has not changed its meaning.                                            *)
THEOREM ExitCleansUp == Spec => []CleansUp
<1>1. ProcessInv => CleansUp
  BY DEF ProcessInv
<1> QED BY <1>1, ProcessInvariant, PTL
=============================================================================
