---------------------------- MODULE MountProcess -----------------------------
(***************************************************************************)
(* The life of the process: process_arg and main.  main makes the target   *)
(* folder (--automount), lets libfuse mount there and serve, and removes   *)
(* the folder when the file system is unmounted.  Users work on the same   *)
(* folders between any two of its steps.                                   *)
(***************************************************************************)
EXTENDS Naturals, Sequences

CONSTANTS CommandLines,  \* the argument lists considered
          NULL

(* Places a target can be: an absolute path names Fixed from anywhere, a   *)
(* relative one depends on the working directory.                          *)
Fixed == "fixed"
Place == {Fixed, "under start", "under root"}

(* "archive" is any first word; the targets are an absolute and a relative *)
(* path.                                                                   *)
Target == {"absolute", "relative"}
Arg == {"-h", "-V", "-f", "--automount", "--syslog", "archive"} \cup Target

ASSUME MountProcessAssumption ==
  /\ CommandLines \subseteq Seq(Arg)
  /\ NULL \notin Arg

(* What a shell reports of a process an uncaught exception has ended.      *)
ABORT == 134

VARIABLES
  pc,        \* where main is, "exited" at the end
  code,      \* main's result, or ABORT
  args,      \* the arguments fuse_opt_parse has still to go through
  kept,      \* the arguments kept for fuse_setup
  param,     \* struct fuse7z_param
  data,      \* "unset", "lib" or "deleted"
  cwd,       \* the process's working directory
  folder,    \* folder[p] is "absent", "empty" or "full"
  made,      \* the folders that are there because main made them
  mount      \* where the file system is mounted, or NULL

vars == <<pc, code, args, kept, param, data, cwd, folder, made, mount>>

Init ==
  /\ pc = "parse" /\ code = NULL
  /\ args \in CommandLines
  /\ kept = {}
  /\ param = [help |-> FALSE, version |-> FALSE, automake |-> FALSE, syslog |-> FALSE,
              strArgCount |-> 0, fileName |-> NULL, mountpoint |-> NULL]
  /\ data = "unset"
  /\ cwd = "under start"
  /\ folder \in [Place -> {"absent", "empty", "full"}]
  /\ made = {}
  /\ mount = NULL

Where(path) == IF path = "absolute" THEN Fixed ELSE cwd

Exit(n) == pc' = "exited" /\ code' = n

-----------------------------------------------------------------------------
(* Arguments *)

Keep(arg) == kept' = kept \cup {arg}
Discard == UNCHANGED kept

Word == {"archive"} \cup Target

(* Mutant of Version: --version is not passed on to fuse_setup.            *)
VersionDiscarded == param' = [param EXCEPT !.version = TRUE] /\ Discard

Version == param' = [param EXCEPT !.version = TRUE] /\ Keep("-V")

(* Mutant of TooMany: any number of words is taken for the target.         *)
NeverTooMany == FALSE

TooMany == param.strArgCount >= 2

process_arg(arg) ==
  \/ arg = "-h" /\ param' = [param EXCEPT !.help = TRUE] /\ Discard
  \/ arg = "-V" /\ Version
  \/ arg = "--automount" /\ param' = [param EXCEPT !.automake = TRUE] /\ Discard
  \/ arg = "--syslog" /\ param' = [param EXCEPT !.syslog = TRUE] /\ Discard
  \/ arg = "-f" /\ UNCHANGED param /\ Keep(arg)
  \/ /\ arg \in Word /\ param.strArgCount = 0
     /\ param' = [param EXCEPT !.strArgCount = 1, !.fileName = arg]
     /\ Discard
  \/ /\ arg \in Word /\ param.strArgCount > 0 /\ ~TooMany
     /\ param' = [param EXCEPT !.strArgCount = @ + 1, !.mountpoint = arg]
     /\ Keep(arg)

Parse ==
  /\ pc = "parse" /\ args # <<>>
  /\ args' = Tail(args)
  /\ \/ process_arg(Head(args)) /\ UNCHANGED <<pc, code>>
     \/ Head(args) \in Word /\ TooMany /\ Exit(2) /\ UNCHANGED <<kept, param>>
  /\ UNCHANGED <<data, cwd, folder, made, mount>>

-----------------------------------------------------------------------------
(* main *)

(* The checks after parsing; getcwd may fail.                              *)
Check ==
  /\ pc = "parse" /\ args = <<>>
  /\ \/ param.help /\ Exit(3)
     \/ ~param.help /\ Exit(4)
     \/ ~param.help /\ param.version /\ pc' = "mkdir" /\ UNCHANGED code
     \/ /\ ~param.help /\ ~param.version /\ param.fileName # NULL
        /\ pc' = "initlib" /\ UNCHANGED code
  /\ UNCHANGED <<args, kept, param, data, cwd, folder, made, mount>>

(* The constructor returns or throws; nothing catches what it throws.      *)
InitLib ==
  /\ pc = "initlib"
  /\ \/ data' = "lib" /\ pc' = "mkdir" /\ UNCHANGED code
     \/ Exit(ABORT) /\ UNCHANGED data
  /\ UNCHANGED <<args, kept, param, cwd, folder, made, mount>>

(* mkdir's result is not looked at: the folder may be there already.       *)
MakeFolder ==
  /\ pc = "mkdir"
  /\ IF param.automake /\ param.mountpoint # NULL /\ folder[Where(param.mountpoint)] = "absent"
     THEN /\ folder' = [folder EXCEPT ![Where(param.mountpoint)] = "empty"]
          /\ made' = made \cup {Where(param.mountpoint)}
     ELSE UNCHANGED <<folder, made>>
  /\ pc' = "setup"
  /\ UNCHANGED <<code, args, kept, param, data, cwd, mount>>

(* fuse_setup mounts at the target it was passed, which must be empty, and *)
(* leaves the terminal and the working directory unless -f.                *)
Setup ==
  LET targets == kept \cap Target IN
  /\ pc = "setup"
  /\ "-V" \notin kept
  /\ \E t \in targets :
       /\ folder[Where(t)] = "empty"
       /\ mount' = Where(t)
  /\ pc' = "loop"
  /\ cwd' = IF "-f" \in kept THEN cwd ELSE "under root"
  /\ UNCHANGED <<code, args, kept, param, data, folder, made>>

(* It returns NULL for --version, without a target, or when mounting fails. *)
SetupFails ==
  /\ pc = "setup"
  /\ Exit(7)
  /\ UNCHANGED <<args, kept, param, data, cwd, folder, made, mount>>

(* Mutant of LoopResult: fuse_loop goes on when the file system is gone.   *)
LoopOnly == mount # NULL /\ code' \in {0, 8}

LoopResult ==
  \/ mount = NULL /\ code' = 0
  \/ mount # NULL /\ code' \in {0, 8}

(* fuse_loop returns after an unmount or a signal, or fails.               *)
LoopEnds ==
  /\ pc = "loop"
  /\ LoopResult
  /\ pc' = "teardown"
  /\ UNCHANGED <<args, kept, param, data, cwd, folder, made, mount>>

(* fuse_teardown unmounts and runs fuse7z_destroy.                         *)
Teardown ==
  /\ pc = "teardown"
  /\ mount' = NULL
  /\ data' = "deleted"
  /\ pc' = "rmdir"
  /\ UNCHANGED <<code, args, kept, param, cwd, folder, made>>

(* Mutant of Removable: the folder stays when fuse_loop has failed.        *)
RemovableAfterSuccess(path) ==
  code = 0 /\ param.automake /\ path # NULL /\ folder[Where(path)] = "empty"

(* rmdir takes away an empty folder and nothing else.                      *)
Removable(path) == param.automake /\ path # NULL /\ folder[Where(path)] = "empty"

RemoveFolder ==
  /\ pc = "rmdir"
  /\ IF Removable(param.mountpoint)
     THEN /\ folder' = [folder EXCEPT ![Where(param.mountpoint)] = "absent"]
          /\ made' = made \ {Where(param.mountpoint)}
     ELSE UNCHANGED <<folder, made>>
  /\ pc' = "exited"
  /\ UNCHANGED <<code, args, kept, param, data, cwd, mount>>

-----------------------------------------------------------------------------
(* Users *)

(* A user makes, fills, empties or removes a folder nothing is mounted on. *)
UserChanges(p) ==
  /\ pc # "exited" /\ mount # p
  /\ \E s \in {"absent", "empty", "full"} : folder' = [folder EXCEPT ![p] = s]
  /\ made' = IF folder'[p] = "absent" THEN made \ {p} ELSE made
  /\ UNCHANGED <<pc, code, args, kept, param, data, cwd, mount>>

(* fusermount -u                                                           *)
UserUnmounts ==
  /\ pc = "loop" /\ mount # NULL
  /\ mount' = NULL
  /\ UNCHANGED <<pc, code, args, kept, param, data, cwd, folder, made>>

Main ==
  \/ Parse \/ Check \/ InitLib \/ MakeFolder \/ Setup \/ SetupFails
  \/ Teardown \/ RemoveFolder

Next == Main \/ LoopEnds \/ (\E p \in Place : UserChanges(p)) \/ UserUnmounts

(* main runs on; fuse_loop notices that the file system is gone.           *)
Spec == Init /\ [][Next]_vars /\ WF_vars(Main) /\ WF_vars(LoopEnds /\ mount = NULL)

-----------------------------------------------------------------------------
(* Properties *)

(* Every variable keeps its type; main made only folders that are there.   *)
TypeOK ==
  /\ pc \in {"parse", "initlib", "mkdir", "setup", "loop", "teardown", "rmdir", "exited"}
  /\ code \in {NULL, 0, 2, 3, 4, 7, 8, ABORT}
  /\ args \in Seq(Arg) /\ kept \subseteq Arg
  /\ param \in [help : BOOLEAN, version : BOOLEAN, automake : BOOLEAN, syslog : BOOLEAN,
                strArgCount : 0 .. 2, fileName : Word \cup {NULL}, mountpoint : Word \cup {NULL}]
  /\ data \in {"unset", "lib", "deleted"}
  /\ cwd \in Place \ {Fixed}
  /\ folder \in [Place -> {"absent", "empty", "full"}]
  /\ made \subseteq {p \in Place : folder[p] # "absent"}
  /\ mount \in Place \cup {NULL}

(* Whatever the options, requests are served only with the library object  *)
(* main built: the uninitialised data of --version never reaches fuse_loop. *)
ServesLibrary == pc = "loop" => data = "lib"

(* Every way out but a failed fuse_setup leaves nothing behind: the library *)
(* object is deleted or was never made, and a folder main made is gone, or *)
(* in use by someone, provided its name means the same at the end as it    *)
(* did at the start: it is absolute or the process stayed in the           *)
(* foreground.                                                             *)
CleansUp ==
  pc = "exited" /\ code # 7 =>
    /\ data # "lib"
    /\ "-f" \in kept \/ param.mountpoint = "absolute" => \A p \in made : folder[p] = "full"

(* An unmounted file system's process ends.                                *)
Ends == (pc = "loop" /\ mount = NULL) ~> pc = "exited"
=============================================================================
