------------------------------ MODULE Registry ------------------------------
(***************************************************************************)
(* The global key registry (registry.rs): an RwLock over a vector of       *)
(* providers, changed by register_provider_full, disable_provider,         *)
(* enable_provider, clear_providers and load_provider_native, and scanned  *)
(* by get_master_key, get_verify_key and get_signing_key.                  *)
(*                                                                         *)
(* A writer has the lock for the whole of its change, so a change is one   *)
(* action.  A reader has it for the whole of its scan, but the scan takes  *)
(* several steps: it asks each provider whether it is ready and matches,   *)
(* and then for the key, while the environment variable and the key file   *)
(* behind two of the providers can change at any moment.                   *)
(***************************************************************************)
EXTENDS Integers, Sequences, FiniteSets

CONSTANTS
    Direct,      \* DirectKeyProvider objects a program may register
    Native,      \* providers it may load from shared libraries
    Holds,       \* the keys of each: sequences of [kty, kid], first added first
    NativeName,  \* the name each native provider gives itself
    Priorities,  \* the priorities programs register providers at
    Kids,        \* key ids
    KeySets,     \* the contents the environment variable and the file may have
    Names,       \* the names disable_provider and enable_provider are called with
    Threads,     \* threads that look keys up
    MaxWrites,   \* bound: changes of the registry
    None

Env  == "env"
File == "file"
Providers == Direct \cup Native \cup {Env, File}

PRIORITY_NATIVE == 50
PRIORITY_FILE   == 10
PRIORITY_ENV    == 0

(* KeyProvider::name; every direct provider has the same one. *)
Name(p) == IF p \in Direct THEN "DirectKeyProvider"
           ELSE IF p \in Native THEN NativeName[p] ELSE p

Requests == [role : {"master", "verify", "signing"}, kid : Kids \cup {None},
             jku : BOOLEAN]                  \* does it carry a file:// jku

Keys == [kty : {"oct", "okp"}, kid : Kids]

(* A thread's lookup: at the test of the provider at pos, or at its get_*_key *)
Lookups == [req : Requests, pos : Nat, at : {"test", "get"}]

(* ProviderEntry *)
Entries == [p : Providers, priority : Int, enabled : BOOLEAN, stamp : 0 .. MaxWrites]

ASSUME ConstantsAssumption ==
    /\ MaxWrites \in Nat
    /\ Priorities \subseteq Int
    /\ KeySets \subseteq Seq(Keys)
    /\ {Env, File} \cap (Direct \cup Native) = {}
    /\ None \notin Seq(Keys) \cup Providers \cup Lookups

VARIABLES
    list,      \* the vector of entries; their stamp is the time they came in
    writes,    \* the number of changes so far
    envKeys,   \* CRYPTOTENSOR_KEYS: a sequence of keys, None when unset
    fileKeys,  \* the key file: a sequence of keys, None when absent
    scan,      \* each thread's lookup: [req, pos, at], at the step it is in
    answer,    \* what each thread's last lookup returned: a provider or None
    could,     \* history: the listed providers that could have answered the
               \* thread's lookup ever since it began
    silenced   \* history: names disabled and not registered since

vars == <<list, writes, envKeys, fileKeys, scan, answer, could, silenced>>

Entry(p, priority, stamp) ==
    [p |-> p, priority |-> priority, enabled |-> TRUE, stamp |-> stamp]

(* get_providers: as they stand in the source, not sorted *)
Initial == <<Entry(Env, PRIORITY_ENV, 0), Entry(File, PRIORITY_FILE, 0)>>

-----------------------------------------------------------------------------
(* The providers *)

Kty(role) == IF role = "master" THEN "oct" ELSE "okp"

(* What stands behind a provider: fixed keys, the variable or the file *)
Source(p) == IF p = Env THEN envKeys ELSE IF p = File THEN fileKeys ELSE Holds[p]

(* select_jwk, and the maps of a direct provider with their defaults: the   *)
(* key of this kid, or the first one when no kid is asked for               *)
Selects(keys, req) ==
    \E i \in DOMAIN keys :
        keys[i].kty = Kty(req.role) /\ req.kid \in {None, keys[i].kid}

(* is_ready; the file provider has no search paths configured. *)
Ready(p, keys) == p = File \/ (p = Env /\ keys # None) \/ (p \notin {Env, File} /\ keys # <<>>)

(* A direct provider looks at kids of either type, the file provider at the *)
(* jku only.                                                                *)
Matches(p, req) ==
    \/ p = Env
    \/ p = File /\ req.jku
    \/ p \notin {Env, File} /\ \E i \in DOMAIN Holds[p] : req.kid \in {None, Holds[p][i].kid}

(* get_master_key, get_verify_key and get_signing_key of a provider: the    *)
(* trait's default get_signing_key is an error, and env and file keep it.   *)
Gives(p, keys, req) ==
    /\ p \in {Env, File} => req.role # "signing" /\ keys # None
    /\ Selects(keys, req)

Able(p, keys, req) == Ready(p, keys) /\ Matches(p, req) /\ Gives(p, keys, req)

-----------------------------------------------------------------------------
(* Writers *)

Unread == \A th \in Threads : scan[th] = None

(* The elements of s at the positions I, in an order of the positions: each *)
(* has as many before it as there are positions of I before its own.        *)
Arranged(s, I, order) ==
    LET Before(i) == Cardinality({j \in I : <<j, i>> \in order})
    IN  [k \in 1 .. Cardinality(I) |-> s[CHOOSE i \in I : Before(i) = k - 1]]

(* Vec::retain keeps the order, *)
ByPosition(I) == {q \in I \X I : q[1] < q[2]}
Retain(I) == Arranged(list, I, ByPosition(I))

Others(name) == Retain({i \in DOMAIN list : Name(list[i].p) # name})

(* and sort_by is stable: those of one priority stay in the order they had. *)
ByPriority(s) ==
    {q \in (DOMAIN s) \X (DOMAIN s) :
        \/ s[q[1]].priority > s[q[2]].priority
        \/ s[q[1]].priority = s[q[2]].priority /\ q[1] < q[2]}

SortByPriority(s) == Arranged(s, DOMAIN s, ByPriority(s))

(* Mutant: the old entry stays. *)
RegisterProviderTwice(p, priority) ==
    /\ list' = SortByPriority(Append(list, Entry(p, priority, writes + 1)))
    /\ silenced' = silenced \ {Name(p)}

(* Mutant: the new entry comes first among those of its priority. *)
RegisterProviderFirst(p, priority) ==
    /\ list' = SortByPriority(<<Entry(p, priority, writes + 1)>> \o Others(Name(p)))
    /\ silenced' = silenced \ {Name(p)}

(* register_provider_full: out with the old entry of that name, in with the *)
(* new one, and sort.                                                       *)
RegisterProvider(p, priority) ==
    /\ list' = SortByPriority(Append(Others(Name(p)), Entry(p, priority, writes + 1)))
    /\ silenced' = silenced \ {Name(p)}

(* register_provider_with_priority, at PRIORITY_DIRECT from Python          *)
(* (_register_key_provider_internal) and at any priority from Rust: of a    *)
(* direct provider, or of another one for the variable or the file          *)
RegisterWithPriority(p, priority) ==
    /\ p \in Direct \cup {Env, File}
    /\ RegisterProvider(p, priority)

(* register_provider: with default priority (0)                             *)
RegisterDefault(p) == RegisterWithPriority(p, 0)

(* load_provider_native: when the library's signature, its loading and its  *)
(* initialize succeed; otherwise the registry is not touched.               *)
LoadNative(p) ==
    /\ p \in Native
    /\ RegisterProvider(p, PRIORITY_NATIVE)

(* Mutant: the provider's own identity is compared, not its name. *)
DisableProviderByIdentity(name) ==
    /\ list' = Retain({i \in DOMAIN list : list[i].p # name})
    /\ silenced' = silenced \cup {name}

DisableProvider(name) ==
    /\ list' = Others(name)
    /\ silenced' = silenced \cup {name}

EnableProvider(name) ==
    /\ list' = [i \in DOMAIN list |->
                  IF Name(list[i].p) = name THEN [list[i] EXCEPT !.enabled = TRUE]
                                            ELSE list[i]]
    /\ UNCHANGED silenced

ClearProviders ==
    /\ list' = <<>>
    /\ silenced' = silenced \cup {Name(p) : p \in Providers}

Write ==
    /\ Unread
    /\ writes < MaxWrites
    /\ \/ \E p \in Providers, priority \in Priorities : RegisterWithPriority(p, priority)
       \/ \E p \in Providers : RegisterDefault(p)
       \/ \E p \in Native : LoadNative(p)
       \/ \E name \in Names : DisableProvider(name)
       \/ \E name \in Names : EnableProvider(name)
       \/ ClearProviders
    /\ writes' = writes + 1
    /\ UNCHANGED <<envKeys, fileKeys, scan, answer, could>>

-----------------------------------------------------------------------------
(* Readers *)

Begin(th, req) ==
    /\ scan[th] = None
    /\ scan' = [scan EXCEPT ![th] = [req |-> req, pos |-> 1, at |-> "test"]]
    /\ answer' = [answer EXCEPT ![th] = None]
    /\ could' = [could EXCEPT ![th] =
                    {p \in {list[i].p : i \in DOMAIN list} : Able(p, Source(p), req)}]
    /\ UNCHANGED <<list, writes, envKeys, fileKeys, silenced>>

Scanning(th, at) ==
    /\ scan[th] # None
    /\ scan[th].at = at
    /\ scan[th].pos <= Len(list)

(* Mutant: the provider after the one that fails is left out. *)
NextEntrySkips(th) == scan' = [scan EXCEPT ![th].pos = @ + 2, ![th].at = "test"]

NextEntry(th) == scan' = [scan EXCEPT ![th].pos = @ + 1, ![th].at = "test"]

(* entry.enabled && is_ready() && matches(jku, kid) *)
TestProvider(th) ==
    /\ Scanning(th, "test")
    /\ LET e == list[scan[th].pos]
       IN  IF e.enabled /\ Ready(e.p, Source(e.p)) /\ Matches(e.p, scan[th].req)
           THEN scan' = [scan EXCEPT ![th].at = "get"]
           ELSE NextEntry(th)
    /\ UNCHANGED <<list, writes, envKeys, fileKeys, answer, could, silenced>>

(* Mutant: the error of the first provider that matches ends the lookup. *)
GetKeyOrFail(th) ==
    /\ Scanning(th, "get")
    /\ LET p == list[scan[th].pos].p
       IN  answer' = [answer EXCEPT ![th] =
                         IF Gives(p, Source(p), scan[th].req) THEN p ELSE None]
    /\ scan' = [scan EXCEPT ![th] = None]
    /\ UNCHANGED <<list, writes, envKeys, fileKeys, could, silenced>>

(* Ok(key) => return, Err(_) => continue *)
GetKey(th) ==
    /\ Scanning(th, "get")
    /\ LET p == list[scan[th].pos].p
       IN  IF Gives(p, Source(p), scan[th].req)
           THEN /\ answer' = [answer EXCEPT ![th] = p]
                /\ scan' = [scan EXCEPT ![th] = None]
           ELSE /\ NextEntry(th)
                /\ UNCHANGED answer
    /\ UNCHANGED <<list, writes, envKeys, fileKeys, could, silenced>>

(* "No suitable provider found" *)
NotFound(th) ==
    /\ scan[th] # None
    /\ scan[th].pos > Len(list)
    /\ scan' = [scan EXCEPT ![th] = None]
    /\ UNCHANGED <<list, writes, envKeys, fileKeys, answer, could, silenced>>

(* Someone sets the environment variable or replaces the key file. *)
Changed(p, keys) ==
    could' = [th \in Threads |->
                IF scan[th] = None \/ Able(p, keys, scan[th].req)
                THEN could[th] ELSE could[th] \ {p}]

ChangeSource ==
    /\ \E keys \in KeySets \cup {None} :
         \/ /\ keys # envKeys
            /\ envKeys' = keys
            /\ Changed(Env, keys)
            /\ UNCHANGED fileKeys
         \/ /\ keys # fileKeys
            /\ fileKeys' = keys
            /\ Changed(File, keys)
            /\ UNCHANGED envKeys
    /\ UNCHANGED <<list, writes, scan, answer, silenced>>

-----------------------------------------------------------------------------
Init ==
    /\ list = Initial
    /\ writes = 0
    /\ envKeys \in KeySets \cup {None}
    /\ fileKeys \in KeySets \cup {None}
    /\ scan = [th \in Threads |-> None]
    /\ answer = [th \in Threads |-> None]
    /\ could = [th \in Threads |-> {}]
    /\ silenced = {}

Lookup(th) == TestProvider(th) \/ GetKey(th) \/ NotFound(th)

Next ==
    \/ Write
    \/ \E th \in Threads, req \in Requests : Begin(th, req)
    \/ \E th \in Threads : Lookup(th)
    \/ ChangeSource

(* A thread that has begun a lookup goes on with it; nobody has to change   *)
(* the registry, the variable or the file, or to ask for a key.             *)
Fairness == \A th \in Threads : WF_vars(Lookup(th))

Spec == Init /\ [][Next]_vars /\ Fairness

-----------------------------------------------------------------------------
(* Properties *)

TypeOK ==
    /\ list \in Seq(Entries)
    /\ writes \in 0 .. MaxWrites
    /\ envKeys \in Seq(Keys) \cup {None}
    /\ fileKeys \in Seq(Keys) \cup {None}
    /\ \A th \in Threads : scan[th] # None =>
          scan[th] \in [req : Requests, pos : 1 .. Len(list) + 1, at : {"test", "get"}]
    /\ answer \in [Threads -> Providers \cup {None}]
    /\ could \in [Threads -> SUBSET Providers]

(* No two providers answer to one name: a registration replaces its         *)
(* predecessor, so disable_provider and the key a name stands for are       *)
(* unambiguous.                                                             *)
NamesUnique == \A i, j \in DOMAIN list : Name(list[i].p) = Name(list[j].p) => i = j

(* The providers stand by priority, and those of one priority in the order  *)
(* of their registration, whatever priorities they are registered at.  One  *)
(* list is the exception, as long as nothing has been registered: the       *)
(* initial one, in which env (0) stands before file (10).                   *)
PriorityThenAge ==
    \/ \A i, j \in DOMAIN list : i < j =>
          \/ list[i].priority > list[j].priority
          \/ list[i].priority = list[j].priority /\ list[i].stamp < list[j].stamp
    \/ list = Initial

Returns(th) == scan[th] # None /\ scan'[th] = None

(* A lookup passes over no provider that could have answered it: whoever    *)
(* answers, all those before it were unable at some moment of the scan, and *)
(* "no suitable provider" means every provider was, however the environment *)
(* variable and the key file changed meanwhile.                             *)
FirstAbleAnswers ==
    [][\A th \in Threads : Returns(th) =>
          \A i \in DOMAIN list : list[i].p \in could[th] =>
              /\ answer'[th] # None
              /\ \E j \in 1 .. i : list[j].p = answer'[th]]_vars

(* A disabled provider answers no lookup until its name is registered again *)
DisabledAreSilent ==
    [][\A th \in Threads : Returns(th) /\ answer'[th] # None =>
          Name(answer'[th]) \notin silenced]_vars

=============================================================================
