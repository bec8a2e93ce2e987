---------------------------- MODULE SkynetHandle ----------------------------
(***************************************************************************)
(* The handle table of skynet_handle.c.  Each function works under the     *)
(* table's lock and is one step; but skynet_context_new stores the handle  *)
(* that skynet_handle_register returned after the lock is given up, so     *)
(* that for a while a context is in the table without knowing its handle.  *)
(***************************************************************************)
EXTENDS Integers, Sequences, SequencesExt

CONSTANTS
    Context,      \* contexts; one that was retired may be launched again
    SlotSize,     \* DEFAULT_SLOT_SIZE
    HandleBits,   \* HANDLE_REMOTE_SHIFT: HANDLE_MASK is a handle of so many ones
    Harbor,       \* the node's harbor, the bits above the mask
    Names,        \* names, as numbers in the order of strcmp
    Launchers,    \* bound: launches at a time
    Null

(* The powers of two, by the doubling that makes the table grow. *)
Pow2[k \in Nat] == IF k = 0 THEN 1 ELSE 2 * Pow2[k - 1]

ASSUME HandleAssumption ==
    /\ Null \notin Context /\ Null \notin Nat /\ IsFiniteSet(Context) /\ Launchers \in Nat
    /\ HandleBits \in Nat /\ Harbor \in Nat /\ Names \subseteq Int
    /\ \E k \in 0..HandleBits : SlotSize = Pow2[k]

VARIABLES
    table,    \* s->slot, of s->slot_size entries
    handle_index,  \* s->handle_index
    handle,   \* ctx->handle of each context, 0 until it is stored
    given,    \* of each context being launched, the handle it was given; else Null
    names,    \* s->name: pairs of a name and a handle
    aborted   \* an assertion failed

handleVars == <<table, handle_index, handle, given, names, aborted>>

slot_size == Len(table)
Mask == Pow2[HandleBits]

HandleInit ==
    /\ table = [i \in 1..SlotSize |-> Null]
    /\ handle_index = 1
    /\ handle = [c \in Context |-> 0]
    /\ given = [c \in Context |-> Null]
    /\ names = << >>
    /\ aborted = FALSE

(* The entry for handle h in a table tb. *)
Hash(h, tb) == (h % Len(tb)) + 1

(* Mutant of Expanded: the contexts keep their places. *)
ExpandedInPlace(tb) == [i \in 1..(2 * Len(tb)) |-> IF i <= Len(tb) THEN tb[i] ELSE Null]

(* The table of twice the size: every context goes where its handle says. *)
Expanded(tb) ==
    [i \in 1..(2 * Len(tb)) |->
        LET here == {c \in Range(tb) : handle[c] % (2 * Len(tb)) = i - 1}
        IN  IF here = {} THEN Null ELSE CHOOSE c \in here : TRUE]

(* The size stays within the mask, and assert(new_slot[hash] == NULL) for   *)
(* every context that is moved.                                             *)
ExpandAsserts(tb) ==
    /\ 2 * Len(tb) <= Mask
    /\ \A c, d \in Range(tb) : c # d => handle[c] % (2 * Len(tb)) # handle[d] % (2 * Len(tb))

(* The first free entry from handle_index on. *)
Register(c, tb) ==
    LET h(i) == (i + handle_index) % Mask
        free(i) == tb[Hash(h(i), tb)] = Null
        i == CHOOSE j \in 0..(Len(tb) - 1) : free(j) /\ \A k \in 0..(j - 1) : ~free(k)
    IN  /\ table' = [tb EXCEPT ![Hash(h(i), tb)] = c]
        /\ handle_index' = h(i) + 1
        /\ given' = [given EXCEPT ![c] = h(i) + Harbor * Mask]
        /\ UNCHANGED <<handle, names, aborted>>

(* skynet_handle_register *)
HandleRegister(c) ==
    /\ ~aborted /\ c \notin Range(table)
    /\ Cardinality({d \in Context : given[d] # Null}) < Launchers
    /\ IF Null \in Range(table) THEN Register(c, table)
       ELSE IF ExpandAsserts(table) THEN Register(c, Expanded(table))
       ELSE aborted' = TRUE /\ UNCHANGED <<table, handle_index, handle, given, names>>

(* ctx->handle = skynet_handle_register(ctx), the store. *)
HandleStore(c) ==
    /\ ~aborted /\ given[c] # Null
    /\ handle' = [handle EXCEPT ![c] = given[c]]
    /\ given' = [given EXCEPT ![c] = Null]
    /\ UNCHANGED <<table, handle_index, names, aborted>>

(* skynet_handle_grab *)
Grab(h) ==
    LET c == table[Hash(h, table)]
    IN  IF c # Null /\ handle[c] = h THEN c ELSE Null

(* The names without those of handle h, in their order. *)
Without(h) ==
    LET f[i \in 0..Len(names)] ==
          IF i = 0 THEN << >>
          ELSE IF names[i].handle = h THEN f[i - 1] ELSE Append(f[i - 1], names[i])
    IN  f[Len(names)]

(* skynet_handle_retire of a service that is running; its names go with it. *)
HandleRetire(h) ==
    /\ ~aborted
    /\ LET c == Grab(h) IN
         /\ c # Null /\ given[c] = Null
         /\ table' = [table EXCEPT ![Hash(h, table)] = Null]
         /\ handle' = [handle EXCEPT ![c] = 0]
    /\ names' = Without(h)
    /\ UNCHANGED <<handle_index, given, aborted>>

(* The binary search of _insert_name and skynet_handle_findname: where the  *)
(* name is, and where it would be inserted.                                 *)
Search(n) ==
    LET f[r \in (1..(Len(names) + 1)) \X (0..Len(names))] ==
          LET mid == (r[1] + r[2]) \div 2
          IN  IF r[1] > r[2] THEN [found |-> FALSE, at |-> r[1]]
              ELSE IF names[mid].name = n THEN [found |-> TRUE, at |-> mid]
              ELSE IF names[mid].name < n THEN f[<<mid + 1, r[2]>>] ELSE f[<<r[1], mid - 1>>]
    IN  f[<<1, Len(names)>>]

(* skynet_handle_namehandle: nothing asks whether the handle is in use; a   *)
(* service that was retired while its callback runs may still take a name.  *)
NameHandle(h, n) ==
    /\ ~aborted
    /\ ~Search(n).found
    /\ names' = InsertAt(names, Search(n).at, [name |-> n, handle |-> h])
    /\ UNCHANGED <<table, handle_index, handle, given, aborted>>

(* skynet_handle_findname: the handle, or 0. *)
FindName(n) == IF Search(n).found THEN names[Search(n).at].handle ELSE 0

Handles == (Harbor * Mask)..(Harbor * Mask + Mask - 1)

HandleNext ==
    \/ \E c \in Context : HandleRegister(c) \/ HandleStore(c)
    \/ \E h \in Handles : HandleRetire(h) \/ \E n \in Names : NameHandle(h, n)

HandleSpec == HandleInit /\ [][HandleNext]_handleVars

-----------------------------------------------------------------------------
(* Every variable has its type; the size of the table is a power of two. *)
HandleTypeOK ==
    /\ table \in Seq(Context \cup {Null}) /\ \E k \in 0..HandleBits : slot_size = Pow2[k]
    /\ handle_index \in 1..Mask
    /\ handle \in [Context -> Handles \cup {0}]
    /\ given \in [Context -> Handles \cup {Null}]
    /\ names \in Seq([name : Names, handle : Handles]) /\ aborted \in BOOLEAN

(* skynet_handle_grab finds every service that runs, under the handle it    *)
(* was given, after any number of expansions and after the handles wrapped; *)
(* and when the table is doubled no two contexts go to the same entry, as   *)
(* skynet_handle_register asserts.                                          *)
Reachable ==
    /\ ~aborted
    /\ \A c \in Context : c \in Range(table) /\ given[c] = Null => Grab(handle[c]) = c

(* skynet_handle_findname's binary search finds every name in the list:     *)
(* insertions, and removals by any number of retired services, keep it      *)
(* sorted and without duplicates.                                           *)
NamesFound == \A i \in DOMAIN names : FindName(names[i].name) = names[i].handle

(* Whatever was registered, by handle or by name, is found.                 *)
RegisteredFound == Reachable /\ NamesFound
=============================================================================
