-------------------------- MODULE DataFramesFactory --------------------------
(***************************************************************************)
(* Frames/DataFramesFactory: which definitions and atoms a factory holds,  *)
(* who deletes them, and by which definitions it says whether a frame      *)
(* needs a ticket.  (What it reads and builds: DataFrames, FramesContract.)*)
(*                                                                         *)
(* An atom is a type, who registered it and in which call; a storage of    *)
(* definitions is a number, or the caller's.  A step is a call.            *)
(***************************************************************************)
EXTENDS Integers, Sequences, Functions

CONSTANTS
  BaseTypes,   \* types initializeAtomsStorage() registers
  CustomTypes, \* types that an override registers behind them, or instead
  Files,       \* file -> frame -> whether it needs a ticket
  Given,       \* what the caller's storage holds
  MaxCalls     \* bound

VARIABLES
  storage,    \* _definitions
  isOwning,   \* _isOwningDefinitions
  registry,   \* type -> atom
  living,      \* that were made and not deleted
  storages,   \* those not deleted -> frame -> whether it needs a ticket
  replaced,   \* history: atoms another took the place of
  misused,    \* history: something deleted was used or deleted again
  lastRead,   \* history: what the last call read or was given, if it is known
  life, invocations

factoryVars == <<storage, isOwning, registry, living, storages, replaced, misused, lastRead, life, invocations>>

Nothing == <<>>
Callers == <<"callers">>
Made(n) == <<"storage", n>>
Unknown == <<>>
Merge(f, g) == [x \in DOMAIN f \cup DOMAIN g |-> IF x \in DOMAIN f THEN f[x] ELSE g[x]]

Init ==
  /\ storage = Nothing /\ isOwning = FALSE /\ registry = <<>> /\ living = {}
  /\ storages = [s \in {Callers} |-> Given] /\ replaced = {} /\ misused = FALSE
  /\ lastRead = Unknown /\ life = "none" /\ invocations = 0

Construct(definitions) ==
  /\ life = "none"
  /\ life' = "alive"
  /\ storage' = definitions /\ isOwning' = (definitions = Nothing)
  /\ lastRead' = IF definitions = Nothing THEN Unknown ELSE <<storages[definitions]>>
  /\ UNCHANGED <<registry, living, storages, replaced, misused, invocations>>

Invoked ==
  /\ life = "alive" /\ invocations < MaxCalls
  /\ invocations' = invocations + 1
  /\ UNCHANGED life

(* The atoms go, the registry keeps their pointers.                        *)
ReleaseAtomsStorage == living \ Range(registry)

(* Twice when init() reads a file; of the first time nothing is left but   *)
(* base atoms that an override's have replaced.                            *)
InitializeAtomsStorage(times) ==
  LET New(n) == {<<"base", type, invocations, n>> : type \in BaseTypes}
                  \cup {<<"custom", type, invocations, n>> : type \in CustomTypes}
      Registered(n) == [type \in BaseTypes \cup CustomTypes |->
                          <<IF type \in CustomTypes THEN "custom" ELSE "base", type, invocations, n>>]
      Replaced == UNION {New(n) \ Range(Registered(n)) : n \in 1 .. times}
  IN  /\ registry' = Registered(times)
      /\ living' = ReleaseAtomsStorage \cup Range(Registered(times)) \cup Replaced
      /\ replaced' = replaced \cup Replaced

ReleaseDefinitionsStorage == IF storage # Nothing /\ isOwning THEN {storage} ELSE {}

(* createDefinitionStorage(), called where there is none.                  *)
CreateDefinitionStorage ==
  /\ storage' = IF storage = Nothing THEN Made(invocations) ELSE storage
  /\ isOwning' = (storage = Nothing \/ isOwning)

(* What the storage held before the file is read into it.                  *)
Held == IF storage = Nothing THEN <<>> ELSE storages[storage]

Fill(contents) ==
  /\ storages' = Merge([s \in {storage'} |-> contents], storages)
  /\ misused' = (misused \/ Range(registry) \ living # {} \/ (storage # Nothing /\ storage \notin DOMAIN storages))

Unnamed ==
  /\ misused' = (misused \/ Range(registry) \ living # {})
  /\ UNCHANGED <<storage, isOwning, storages, lastRead>>

(* readFromFile(): the storage is empty when the file does not open.       *)
FromFile(file, opens) == IF opens THEN Files[file] ELSE <<>>

ReadFromXml(file, opens) ==
  IF file = ""
  THEN Unnamed
  ELSE /\ CreateDefinitionStorage
       /\ Fill(FromFile(file, opens))
       /\ lastRead' = IF opens THEN <<Files[file]>> ELSE Unknown

(* readFromResource(): nothing changes when there is no such resource.     *)
FromResource(resource, exists, opens, clear) ==
  LET kept == IF exists /\ clear THEN <<>> ELSE Held
  IN IF exists /\ opens THEN Merge(Files[resource], kept) ELSE kept

ReadFromResource(resource, exists, opens, clear) ==
  IF resource = ""
  THEN Unnamed
  ELSE /\ CreateDefinitionStorage
       /\ Fill(FromResource(resource, exists, opens, clear))
       /\ lastRead' = IF exists /\ opens /\ (clear \/ storage = Nothing) THEN <<Files[resource]>>
                      ELSE IF exists /\ opens /\ lastRead # Unknown THEN <<Merge(Files[resource], lastRead[1])>>
                      ELSE IF exists /\ clear THEN Unknown ELSE lastRead

CallReadFromXml ==
  /\ Invoked /\ InitializeAtomsStorage(1)
  /\ \E file \in DOMAIN Files \cup {""}, opens \in BOOLEAN : ReadFromXml(file, opens)

CallReadFromResource ==
  /\ Invoked /\ InitializeAtomsStorage(1)
  /\ \E resource \in DOMAIN Files \cup {""}, exists, opens, clear \in BOOLEAN :
       ReadFromResource(resource, exists, opens, clear)

InitFromFile ==
  /\ Invoked /\ InitializeAtomsStorage(2)
  /\ \E file \in DOMAIN Files \cup {""}, opens \in BOOLEAN : ReadFromXml(file, opens)

InitGiven ==
  /\ Invoked /\ InitializeAtomsStorage(1)
  /\ storage' = Callers /\ isOwning' = FALSE
  /\ storages' = [s \in DOMAIN storages \ ReleaseDefinitionsStorage |-> storages[s]]
  /\ misused' = (misused \/ Range(registry) \ living # {} \/ ReleaseDefinitionsStorage \ DOMAIN storages # {})
  /\ lastRead' = <<storages[Callers]>>

Destroy ==
  /\ life = "alive" /\ life' = "destroyed"
  /\ storages' = [s \in DOMAIN storages \ ReleaseDefinitionsStorage |-> storages[s]]
  /\ living' = ReleaseAtomsStorage
  /\ misused' = (misused \/ Range(registry) \ living # {} \/ ReleaseDefinitionsStorage \ DOMAIN storages # {})
  /\ UNCHANGED <<storage, isOwning, registry, replaced, lastRead, invocations>>

Next ==
  \/ \E definitions \in {Nothing, Callers} : Construct(definitions)
  \/ CallReadFromXml \/ CallReadFromResource \/ InitFromFile \/ InitGiven \/ Destroy

Spec == Init /\ [][Next]_factoryVars

IsFramesNeedTicket(list) ==
  storage # Nothing /\ \E name \in list \cap DOMAIN storages[storage] : storages[storage][name]

---------------------------------------------------------------------------

(* Nothing is deleted twice or used after it was deleted, the caller's     *)
(* storage stays, of the factory's own things none is left when it is      *)
(* gone but the atoms that others have replaced; and whether frames need   *)
(* a ticket is said by what was read last, whatever was known before.      *)
OwnsWhatItDeletes ==
  /\ ~misused
  /\ Callers \in DOMAIN storages
  /\ life = "alive" => DOMAIN storages = {Callers} \cup ({storage} \ {Nothing}) /\ Range(registry) \subseteq living
  /\ life = "destroyed" => DOMAIN storages = {Callers} /\ living = replaced
  /\ life = "alive" /\ lastRead # Unknown =>
       \A list \in SUBSET UNION {DOMAIN Files[file] : file \in DOMAIN Files} :
         IsFramesNeedTicket(list) = \E name \in list \cap DOMAIN lastRead[1] : lastRead[1][name]
=============================================================================
