---------------------------- MODULE CliContexts ----------------------------
(***************************************************************************)
(* The context commands of ascli (src/cli/context.go) as processes that    *)
(* share ~/.ascli/contexts.json.  A process loads the whole file, decides  *)
(* in memory, and writes the whole file back with os.WriteFile, which      *)
(* truncates it first.  Nothing locks the file.  produce, rpc and read     *)
(* resolve their connection from the same file (src/cli/common.go).        *)
(***************************************************************************)
CONSTANTS Proc,      \* the terminals commands run in, one command at a time each
          Name,      \* the names given to commands
          NoName,    \* "", the zero value of CurrentContext
          Default,   \* pulsar://localhost:6650
          MayCrash   \* whether a process may be killed while it runs

ASSUME CrashAssumption   == MayCrash \in BOOLEAN
ASSUME DefaultAssumption == Default \notin Name

Commands == {"create", "use", "delete"}

(* ContextConfig: a context's settings are identified with its name. *)
Config == [current : Name \union {NoName}, contexts : SUBSET Name]

Fresh == [current |-> NoName, contexts |-> {}]

VARIABLES
  kind,       \* "absent", "empty" (truncated), "json", or "garbled" by two writers
  content,    \* what the file says when kind is "json"
  pc,         \* pc[p]: what process p does next: "idle", "truncate" or "write"
  argv,       \* argv[p]: the command process p is saving the result of
  mem,        \* mem[p]: contextConfig in the memory of process p, while it runs
  reply,      \* reply[p]: how the last command of p ended
  used,       \* used[p]: the context the last produce, rpc or read of p connected with
  committed,  \* the last configuration completely written (history)
  base        \* base[p]: what was committed when p loaded the file (history)

vars == <<kind, content, pc, argv, mem, reply, used, committed, base>>

TypeOK ==
  /\ kind \in {"absent", "empty", "json", "garbled"}
  /\ content \in Config
  /\ pc \in [Proc -> {"idle", "truncate", "write"}]
  /\ argv \in [Proc -> Commands \union {"none"}]
  /\ mem \in [Proc -> Config]
  /\ reply \in [Proc -> {"none", "ok", "refused", "unreadable"}]
  /\ used \in [Proc -> Name \union {NoName, Default}]
  /\ committed \in Config
  /\ base \in [Proc -> Config]

Init ==
  /\ kind = "absent"
  /\ content = Fresh
  /\ pc = [p \in Proc |-> "idle"]
  /\ argv = [p \in Proc |-> "none"]
  /\ mem = [p \in Proc |-> Fresh]
  /\ reply = [p \in Proc |-> "none"]
  /\ used = [p \in Proc |-> NoName]
  /\ committed = Fresh
  /\ base = [p \in Proc |-> Fresh]

(* Mutant: an empty file counts as a missing one. *)
ReadableIfEmpty == kind \in {"absent", "empty", "json"}

(* loadContextConfig: a missing file is an empty configuration, anything but
   JSON is an error. *)
Readable == kind \in {"absent", "json"}
Loaded   == IF kind = "json" THEN content ELSE Fresh

(* Mutant: the check for the current context is dropped. *)
AllowedToDeleteAny(cmd, cfg, n) ==
  \/ cmd = "create" /\ n \notin cfg.contexts
  \/ cmd \in {"use", "delete"} /\ n \in cfg.contexts

Allowed(cmd, cfg, n) ==
  \/ cmd = "create" /\ n \notin cfg.contexts
  \/ cmd = "use" /\ n \in cfg.contexts
  \/ cmd = "delete" /\ n \in cfg.contexts /\ n # cfg.current

(* The change a command makes to the loaded configuration; the first context
   created becomes the current one. *)
Changed(cmd, cfg, n) ==
  CASE cmd = "create" -> [current  |-> IF cfg.current = NoName THEN n ELSE cfg.current,
                          contexts |-> cfg.contexts \union {n}]
    [] cmd = "use"    -> [cfg EXCEPT !.current = n]
    [] cmd = "delete" -> [cfg EXCEPT !.contexts = @ \ {n}]

-----------------------------------------------------------------------------
(* runCreateContext, runUseContext, runDeleteContext up to saveContextConfig *)
Command(p, cmd, n) ==
  /\ pc[p] = "idle"
  /\ Readable
  /\ Allowed(cmd, Loaded, n)
  /\ mem' = [mem EXCEPT ![p] = Changed(cmd, Loaded, n)]
  /\ pc' = [pc EXCEPT ![p] = "truncate"]
  /\ argv' = [argv EXCEPT ![p] = cmd]
  /\ reply' = [reply EXCEPT ![p] = "none"]
  /\ base' = [base EXCEPT ![p] = committed]
  /\ UNCHANGED <<kind, content, used, committed>>

Refused(p, cmd, n) ==
  /\ pc[p] = "idle"
  /\ ~(Readable /\ Allowed(cmd, Loaded, n))
  /\ reply' = [reply EXCEPT ![p] = IF Readable THEN "refused" ELSE "unreadable"]
  /\ UNCHANGED <<kind, content, pc, argv, mem, used, committed, base>>

(* Mutant: the file is rewritten in place. *)
TruncateNothing(p) ==
  /\ pc[p] = "truncate"
  /\ pc' = [pc EXCEPT ![p] = "write"]
  /\ UNCHANGED <<kind, content, argv, mem, reply, used, committed, base>>

(* The process is gone, and what it had in memory. *)
Forget(p) ==
  /\ mem' = [mem EXCEPT ![p] = Fresh]
  /\ base' = [base EXCEPT ![p] = Fresh]

(* saveContextConfig: os.WriteFile opens with O_TRUNC ... *)
Truncate(p) ==
  /\ pc[p] = "truncate"
  /\ kind' = "empty"
  /\ pc' = [pc EXCEPT ![p] = "write"]
  /\ UNCHANGED <<content, argv, mem, reply, used, committed, base>>

(* ... and writes at offset 0.  Over what another process has written since,
   a shorter text leaves a tail that does not parse. *)
Write(p) ==
  /\ pc[p] = "write"
  /\ \/ /\ kind' = "json"
        /\ content' = mem[p]
        /\ committed' = mem[p]
     \/ /\ kind = "garbled" \/ (kind = "json" /\ content # mem[p])
        /\ kind' = "garbled"
        /\ UNCHANGED <<content, committed>>
  /\ pc' = [pc EXCEPT ![p] = "idle"]
  /\ argv' = [argv EXCEPT ![p] = "none"]
  /\ reply' = [reply EXCEPT ![p] = "ok"]
  /\ Forget(p)
  /\ UNCHANGED used

(* The process is killed in the middle of a command. *)
Crash(p) ==
  /\ MayCrash
  /\ pc[p] # "idle"
  /\ pc' = [pc EXCEPT ![p] = "idle"]
  /\ argv' = [argv EXCEPT ![p] = "none"]
  /\ Forget(p)
  /\ UNCHANGED <<kind, content, reply, used, committed>>

(* getCurrentContext: no error only for a current context that exists *)
Effective(cfg) ==
  IF cfg.current # NoName /\ cfg.current \in cfg.contexts THEN cfg.current ELSE Default

(* getContextConfig of a produce, rpc or read without connection flags: any
   error of the context means the default URL. *)
Resolve(p) ==
  /\ pc[p] = "idle"
  /\ used' = [used EXCEPT ![p] = IF Readable THEN Effective(Loaded) ELSE Default]
  /\ UNCHANGED <<kind, content, pc, argv, mem, reply, committed, base>>

-----------------------------------------------------------------------------
Next ==
  \E p \in Proc :
    \/ \E cmd \in Commands, n \in Name : Command(p, cmd, n) \/ Refused(p, cmd, n)
    \/ Truncate(p)
    \/ Write(p)
    \/ Crash(p)
    \/ Resolve(p)

Spec == Init /\ [][Next]_vars

(* A process that was not killed goes on. *)
FairSpec == Spec /\ \A p \in Proc : WF_vars(Truncate(p) \/ Write(p))

-----------------------------------------------------------------------------
Consistent(cfg) == cfg.current = NoName \/ cfg.current \in cfg.contexts

(* However processes interleave and die, a file that parses names a current
   context it contains: a snapshot in memory never mixes two files. *)
FileConsistent == kind = "json" => Consistent(content)

ConsistentInv ==
  /\ TypeOK
  /\ FileConsistent
  /\ Consistent(committed)
  /\ \A p \in Proc : Consistent(mem[p])

(* What a command is about to write is its change of what had last been written
   when it loaded the file, although others may have written since. *)
RaceInv ==
  /\ Readable => Loaded = committed
  /\ \A p \in Proc :
       pc[p] # "idle" =>
         \E n \in Name : /\ argv[p] \in Commands
                         /\ Allowed(argv[p], base[p], n)
                         /\ mem[p] = Changed(argv[p], base[p], n)

IInv == ConsistentInv /\ RaceInv

(* With one terminal the file, while it can be read, says what was last
   written, and a command that is being saved changes exactly that. *)
SerialInv ==
  \A p \in Proc :
    /\ pc[p] # "write" /\ Readable => Loaded = committed
    /\ pc[p] = "write" => kind = "empty"
    /\ pc[p] # "idle" =>
         \E n \in Name : /\ argv[p] \in Commands
                         /\ Allowed(argv[p], committed, n)
                         /\ mem[p] = Changed(argv[p], committed, n)

(* Unless a command is killed the file can be read but between its truncation
   and its write. *)
ReadableInv == \A p \in Proc : pc[p] # "write" => Readable

(* What may be lost when terminals overlap, and no more.  A write drops a
   context only if that context was created since the command loaded the file,
   or if it is the one the command deletes, which was not current then ("Don't
   allow deleting current context").  A write moves the current context away
   from what it was then only for a use or for the first create.  So a file cut
   short is never taken for an empty store, whose next write would drop them
   all. *)
OnlyRacesLose ==
  [][\A p \in Proc :
       Write(p) /\ committed' # committed =>
         /\ \A n \in committed.contexts \ committed'.contexts :
              \/ n \notin base[p].contexts
              \/ /\ argv[p] = "delete"
                 /\ n # base[p].current
                 /\ base[p].contexts \ committed'.contexts = {n}
         /\ \/ committed'.current = base[p].current
            \/ argv[p] = "use"
            \/ argv[p] = "create" /\ base[p].current = NoName]_vars

(* "When a context is set, all commands will use the context's configuration
   by default." *)
UsesContext ==
  [][\A p \in Proc :
       Resolve(p) /\ Effective(committed) # Default
         => used'[p] = Effective(committed)]_vars

(* One terminal at a time: the file is readable whenever a command starts. *)
ReadableBetweenCommands == (\A p \in Proc : pc[p] = "idle") => Readable

(* A command that got past its checks reports success in the end, and what it
   wrote can be read. *)
CommandsFinish ==
  \A p \in Proc : pc[p] # "idle" ~> reply[p] = "ok" /\ Readable

Store == INSTANCE ContextStore WITH
  contexts <- committed.contexts, current <- committed.current

(* What the commands of one terminal have written is a store of named contexts
   that each of them changed atomically, although a command reads the file,
   asks its user and writes the whole of it later. *)
AtomicStore == Store!Spec
=============================================================================
