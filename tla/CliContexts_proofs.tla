------------------------- MODULE CliContexts_proofs -------------------------
(* Theorems about CliContexts: for any processes, names and crashes first,
   then for one terminal at a time. *)
EXTENDS CliContexts, TLAPS

(* A command changes a consistent configuration into a consistent one. *)
LEMMA ChangedConsistent ==
  ASSUME NEW cfg \in Config, NEW cmd \in Commands, NEW n \in Name,
         Consistent(cfg), Allowed(cmd, cfg, n)
  PROVE  Changed(cmd, cfg, n) \in Config /\ Consistent(Changed(cmd, cfg, n))
<1>1. CASE cmd = "create"
  BY <1>1 DEF Changed, Config, Consistent
<1>2. CASE cmd = "use"
  BY <1>2 DEF Changed, Config, Consistent, Allowed
<1>3. CASE cmd = "delete"
  BY <1>3 DEF Changed, Config, Consistent, Allowed
<1> QED BY <1>1, <1>2, <1>3 DEF Commands

(* The empty configuration is one. *)
LEMMA FreshType == Fresh \in Config /\ Consistent(Fresh)
BY DEF Fresh, Config, Consistent

(* What loadContextConfig reads names a current context it contains. *)
LEMMA LoadedConsistent == ConsistentInv => Loaded \in Config /\ (Readable => Consistent(Loaded))
BY DEF ConsistentInv, TypeOK, FileConsistent, Loaded, Readable, Fresh, Config, Consistent

(* A command connects with a named context or the default URL. *)
LEMMA EffectiveType == ASSUME NEW cfg \in Config PROVE Effective(cfg) \in Name \union {Default}
BY DEF Effective, Config

(* Commands, their writes, crashes and the connecting commands keep the
   configuration consistent in the file and in memory. *)
LEMMA NextConsistent == ConsistentInv /\ [Next]_vars => ConsistentInv'
<1> SUFFICES ASSUME ConsistentInv, [Next]_vars PROVE ConsistentInv' OBVIOUS
<1>1. ASSUME NEW p \in Proc, NEW cmd \in Commands, NEW n \in Name, Command(p, cmd, n)
      PROVE  ConsistentInv'
  <2>1. Changed(cmd, Loaded, n) \in Config /\ Consistent(Changed(cmd, Loaded, n))
    BY <1>1, ChangedConsistent, LoadedConsistent DEF Command
  <2> QED BY <1>1, <2>1 DEF Command, ConsistentInv, TypeOK, FileConsistent
<1>2. ASSUME NEW p \in Proc, NEW cmd \in Commands, NEW n \in Name, Refused(p, cmd, n)
      PROVE  ConsistentInv'
  BY <1>2 DEF Refused, ConsistentInv, TypeOK, FileConsistent
<1>3. ASSUME NEW p \in Proc, Truncate(p) PROVE ConsistentInv'
  BY <1>3 DEF Truncate, ConsistentInv, TypeOK, FileConsistent
<1>4. ASSUME NEW p \in Proc, Write(p) PROVE ConsistentInv'
  BY <1>4, FreshType DEF Write, Forget, ConsistentInv, TypeOK, FileConsistent
<1>5. ASSUME NEW p \in Proc, Crash(p) PROVE ConsistentInv'
  BY <1>5, FreshType DEF Crash, Forget, ConsistentInv, TypeOK, FileConsistent
<1>6. ASSUME NEW p \in Proc, Resolve(p) PROVE ConsistentInv'
  <2>1. Effective(Loaded) \in Name \union {Default}
    BY LoadedConsistent, EffectiveType
  <2> QED BY <1>6, <2>1 DEF Resolve, ConsistentInv, TypeOK, FileConsistent
<1>7. CASE UNCHANGED vars
  BY <1>7 DEF vars, ConsistentInv, TypeOK, FileConsistent
<1> QED BY <1>1, <1>2, <1>3, <1>4, <1>5, <1>6, <1>7 DEF Next

(* Before the first command there is no file. *)
LEMMA InitConsistent == Init => ConsistentInv
BY DEF Init, Fresh, Config, ConsistentInv, TypeOK, FileConsistent, Consistent

(* Whatever interleaves and whoever is killed, a contexts.json that parses
   names a current context it contains (context.go:150-166, 263-287). *)
LEMMA AlwaysConsistent == Spec => []ConsistentInv
BY InitConsistent, NextConsistent, PTL DEF Spec

-----------------------------------------------------------------------------
(* Any number of terminals: what one command can undo of another's *)

(* A file that can be read is what was last written, so what a command loads is
   what it changes, whoever writes before it does. *)
LEMMA RaceStep == ConsistentInv /\ RaceInv /\ [Next]_vars => RaceInv'
<1> SUFFICES ASSUME ConsistentInv, RaceInv, [Next]_vars PROVE RaceInv' OBVIOUS
<1>1. ASSUME NEW p \in Proc, NEW cmd \in Commands, NEW n \in Name, Command(p, cmd, n)
      PROVE  RaceInv'
  <2>1. /\ base' = [base EXCEPT ![p] = committed] /\ argv' = [argv EXCEPT ![p] = cmd]
        /\ mem' = [mem EXCEPT ![p] = Changed(cmd, committed, n)] /\ Allowed(cmd, committed, n)
        /\ pc' = [pc EXCEPT ![p] = "truncate"] /\ UNCHANGED <<kind, content, committed>>
    BY <1>1 DEF RaceInv, Command
  <2> QED BY <2>1 DEF RaceInv, ConsistentInv, TypeOK, Loaded, Readable
<1>2. ASSUME NEW p \in Proc, NEW cmd \in Commands, NEW n \in Name, Refused(p, cmd, n)
      PROVE  RaceInv'
  BY <1>2 DEF Refused, RaceInv, Loaded, Readable
<1>3. ASSUME NEW p \in Proc, Truncate(p) PROVE RaceInv'
  BY <1>3 DEF Truncate, RaceInv, ConsistentInv, TypeOK, Readable
<1>4. ASSUME NEW p \in Proc, Write(p) PROVE RaceInv'
  BY <1>4 DEF Write, Forget, RaceInv, ConsistentInv, TypeOK, Loaded, Readable
<1>5. ASSUME NEW p \in Proc, Crash(p) PROVE RaceInv'
  BY <1>5 DEF Crash, Forget, RaceInv, ConsistentInv, TypeOK, Loaded, Readable
<1>6. ASSUME NEW p \in Proc, Resolve(p) PROVE RaceInv'
  BY <1>6 DEF Resolve, RaceInv, Loaded, Readable
<1>7. CASE UNCHANGED vars
  BY <1>7 DEF vars, RaceInv, Loaded, Readable
<1> QED BY <1>1, <1>2, <1>3, <1>4, <1>5, <1>6, <1>7 DEF Next

(* The inductive invariant of the file and its commands. *)
THEOREM Inductive == Spec => []IInv
<1>1. Init => RaceInv
  BY DEF Init, RaceInv, Loaded, Readable, Fresh
<1> QED BY <1>1, RaceStep, AlwaysConsistent, PTL DEF Spec, IInv

(* Overlapping commands lose what was created meanwhile, and a delete what it
   deletes; nothing else, whoever is killed and whatever a half-written file
   looks like (context.go:150-180, 263-287). *)
THEOREM RacesOnly == Spec => OnlyRacesLose
<1> DEFINE Lost(p) ==
       /\ \A n \in committed.contexts \ committed'.contexts :
            \/ n \notin base[p].contexts
            \/ /\ argv[p] = "delete"
               /\ n # base[p].current
               /\ base[p].contexts \ committed'.contexts = {n}
       /\ \/ committed'.current = base[p].current
          \/ argv[p] = "use"
          \/ argv[p] = "create" /\ base[p].current = NoName
<1>1. ConsistentInv /\ RaceInv => \A p \in Proc : Write(p) /\ committed' # committed => Lost(p)
  <2> SUFFICES ASSUME ConsistentInv, RaceInv, NEW p \in Proc, Write(p), committed' # committed
               PROVE  Lost(p)
    OBVIOUS
  <2>1. PICK n \in Name : /\ argv[p] \in Commands
                          /\ Allowed(argv[p], base[p], n)
                          /\ committed' = Changed(argv[p], base[p], n)
    BY DEF RaceInv, Write
  <2>2. base[p] \in Config
    BY DEF ConsistentInv, TypeOK
  <2>3. CASE argv[p] = "create"
    BY <2>1, <2>3 DEF Changed
  <2>4. CASE argv[p] = "use"
    BY <2>1, <2>2, <2>4 DEF Changed, Config
  <2>5. CASE argv[p] = "delete"
    <3>1. /\ committed'.current = base[p].current
          /\ committed'.contexts = base[p].contexts \ {n}
          /\ n \in base[p].contexts /\ n # base[p].current
      BY <2>1, <2>2, <2>5 DEF Changed, Allowed, Config
    <3> QED BY <2>5, <3>1
  <2> QED BY <2>1, <2>3, <2>4, <2>5 DEF Commands
<1> QED BY <1>1, Inductive, PTL DEF IInv, OnlyRacesLose

-----------------------------------------------------------------------------
(* One terminal, killed or not *)

(* With one terminal nothing comes between a load and the write it leads to. *)
LEMMA SerialStep ==
  ASSUME \A p, q \in Proc : p = q, ConsistentInv, SerialInv, [Next]_vars
  PROVE  SerialInv'
<1>1. ASSUME NEW p \in Proc, NEW cmd \in Commands, NEW n \in Name, Command(p, cmd, n)
      PROVE  SerialInv'
  <2>1. Loaded = committed /\ Readable
    BY <1>1 DEF SerialInv, Command
  <2>2. /\ pc'[p] = "truncate" /\ argv'[p] = cmd /\ committed' = committed
        /\ mem'[p] = Changed(cmd, committed, n) /\ Allowed(cmd, committed, n)
        /\ Loaded' = committed' /\ Readable'
    BY <1>1, <2>1 DEF Command, ConsistentInv, TypeOK, Loaded, Readable
  <2> QED BY <2>2 DEF SerialInv
<1>2. ASSUME NEW p \in Proc, NEW cmd \in Commands, NEW n \in Name, Refused(p, cmd, n)
      PROVE  SerialInv'
  BY <1>2 DEF Refused, SerialInv, Loaded, Readable
<1>3. ASSUME NEW p \in Proc, Truncate(p) PROVE SerialInv'
  BY <1>3 DEF Truncate, SerialInv, ConsistentInv, TypeOK, Readable
<1>4. ASSUME NEW p \in Proc, Write(p) PROVE SerialInv'
  BY <1>4 DEF Write, Forget, SerialInv, ConsistentInv, TypeOK, Loaded, Readable
<1>5. ASSUME NEW p \in Proc, Crash(p) PROVE SerialInv'
  BY <1>5 DEF Crash, Forget, SerialInv, ConsistentInv, TypeOK, Loaded, Readable
<1>6. ASSUME NEW p \in Proc, Resolve(p) PROVE SerialInv'
  BY <1>6 DEF Resolve, SerialInv, Loaded, Readable
<1>7. CASE UNCHANGED vars
  BY <1>7 DEF vars, SerialInv, Loaded, Readable
<1> QED BY <1>1, <1>2, <1>3, <1>4, <1>5, <1>6, <1>7 DEF Next

(* With one terminal the file, if readable, always says what was last written. *)
LEMMA SerialAlways ==
  ASSUME \A p, q \in Proc : p = q PROVE Spec => [](ConsistentInv /\ SerialInv)
<1>1. Init => SerialInv
  BY DEF Init, SerialInv, Loaded, Readable, Fresh
<1>2. ConsistentInv /\ SerialInv /\ [Next]_vars => SerialInv'
  BY SerialStep
<1> QED BY <1>1, <1>2, AlwaysConsistent, PTL DEF Spec

(* One terminal at a time sees the atomic store of ContextStore: each write
   of the file is one create, use or delete of the store, and a command that
   is killed is none. *)
THEOREM SerialRefinement ==
  ASSUME \A p, q \in Proc : p = q PROVE Spec => AtomicStore
<1>1. Init => Store!Init
  BY DEF Init, Store!Init, Fresh
<1>2. ConsistentInv /\ SerialInv /\ [Next]_vars => [Store!Next]_Store!vars
  <2> SUFFICES ASSUME ConsistentInv, SerialInv, [Next]_vars PROVE [Store!Next]_Store!vars OBVIOUS
  <2>1. ASSUME NEW p \in Proc, Write(p), committed' = mem[p] PROVE Store!Next
    <3>1. PICK n \in Name : /\ argv[p] \in Commands
                            /\ Allowed(argv[p], committed, n)
                            /\ mem[p] = Changed(argv[p], committed, n)
      BY <2>1 DEF SerialInv, Write
    <3>t. committed \in Config
      BY DEF ConsistentInv, TypeOK
    <3>2. CASE argv[p] = "create"
      BY <2>1, <3>1, <3>2 DEF Changed, Allowed, Store!Next, Store!Create
    <3>3. CASE argv[p] = "use"
      BY <2>1, <3>1, <3>3, <3>t DEF Changed, Allowed, Config, Store!Next, Store!Use
    <3>4. CASE argv[p] = "delete"
      BY <2>1, <3>1, <3>4, <3>t DEF Changed, Allowed, Config, Store!Next, Store!Delete
    <3> QED BY <3>1, <3>2, <3>3, <3>4 DEF Commands
  <2>2. CASE committed' = committed
    BY <2>2 DEF Store!vars
  <2> QED BY <2>1, <2>2 DEF Next, Command, Refused, Truncate, Write, Crash, Resolve, vars
<1> QED BY <1>1, <1>2, SerialAlways, PTL DEF Spec, AtomicStore, Store!Spec

-----------------------------------------------------------------------------
(* One terminal, never killed: a command killed between truncating the file
   and writing it leaves one that nothing reads. *)

(* Where no command is killed, the write always follows the truncation. *)
LEMMA ReadableAlways ==
  ASSUME \A p, q \in Proc : p = q, ~MayCrash
  PROVE  Spec => [](ConsistentInv /\ SerialInv /\ ReadableInv)
<1>1. Init => ReadableInv
  BY DEF Init, ReadableInv, Readable
<1>2. ConsistentInv /\ SerialInv /\ ReadableInv /\ [Next]_vars => ReadableInv'
  <2> SUFFICES ASSUME ConsistentInv, SerialInv, ReadableInv, [Next]_vars PROVE ReadableInv' OBVIOUS
  <2>1. ASSUME NEW p \in Proc, Truncate(p) PROVE ReadableInv'
    BY <2>1 DEF Truncate, ReadableInv, ConsistentInv, TypeOK
  <2>2. ASSUME NEW p \in Proc, Write(p) PROVE ReadableInv'
    BY <2>2 DEF Write, SerialInv, ReadableInv, Readable
  <2>3. ASSUME NEW p \in Proc, NEW cmd \in Commands, NEW n \in Name,
               Command(p, cmd, n) \/ Refused(p, cmd, n)
        PROVE  ReadableInv'
    BY <2>3 DEF Command, Refused, ReadableInv, Readable, ConsistentInv, TypeOK
  <2>4. ASSUME NEW p \in Proc, Resolve(p) PROVE ReadableInv'
    BY <2>4 DEF Resolve, ReadableInv, Readable
  <2>5. CASE UNCHANGED vars
    BY <2>5 DEF vars, ReadableInv, Readable
  <2> QED BY <2>1, <2>2, <2>3, <2>4, <2>5 DEF Next, Crash
<1> QED BY <1>1, <1>2, SerialAlways, PTL DEF Spec

(* A finished command leaves a file the next command can read. *)
THEOREM SerialReadable ==
  ASSUME \A p, q \in Proc : p = q, ~MayCrash, Proc # {}
  PROVE  Spec => []ReadableBetweenCommands
<1>1. ReadableInv => ReadableBetweenCommands
  BY DEF ReadableInv, ReadableBetweenCommands
<1> QED BY <1>1, ReadableAlways, PTL

(* One terminal at a time, produce, rpc and read connect with the current
   context whenever one is set (common.go:34-42, context.go:150-166). *)
THEOREM SerialUses ==
  ASSUME \A p, q \in Proc : p = q, ~MayCrash PROVE Spec => UsesContext
<1> DEFINE Used == \A p \in Proc :
       Resolve(p) /\ Effective(committed) # Default => used'[p] = Effective(committed)
<1>1. ConsistentInv /\ SerialInv /\ ReadableInv => Used
  <2> SUFFICES ASSUME ConsistentInv, SerialInv, ReadableInv, NEW p \in Proc, Resolve(p)
               PROVE  used'[p] = Effective(committed)
    OBVIOUS
  <2>1. Readable /\ Loaded = committed
    BY DEF SerialInv, ReadableInv, Resolve
  <2>2. used \in [Proc -> Name \union {NoName, Default}]
    BY DEF ConsistentInv, TypeOK
  <2> QED BY <2>1, <2>2 DEF Resolve
<1> QED BY <1>1, ReadableAlways, PTL DEF UsesContext
=============================================================================
