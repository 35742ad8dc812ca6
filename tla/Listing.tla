--------------------------------- MODULE Listing ---------------------------------
(***************************************************************************)
(* GET /api/tx and the gRPC list: a client that walks through the          *)
(* transactions page by page while they are started and change.            *)
(*                                                                         *)
(* list (src/repo.rs 68-76) has the store scan the first offset + limit    *)
(* transactions, skips offset of them and then applies the status filter.  *)
(* The sled store iterates over the keys of the prefix in their order, one *)
(* read after the other and not in a snapshot. The SQL store reads the     *)
(* first rows of the whole table and keeps those of the prefix.            *)
(*                                                                         *)
(* Keys are numbers in the order of the store, where "barrier:..." comes   *)
(* before "gid:...". A scan reads each key once and in this order, so the  *)
(* Vec it returns is the set of its values, and the index of a value is    *)
(* the number of values with smaller keys.                                 *)
(***************************************************************************)
EXTENDS Naturals, FiniteSets

CONSTANTS
    Gids,         \* keys of transactions
    BarrierKeys,  \* keys of barriers
    Statuses,     \* global statuses that occur
    Limits,       \* page sizes a client asks for
    UsizeSize,    \* 2^64 on the servers, usize arithmetic wraps at it
    Stores        \* stores a server may be configured with: "sled", "sql"

ASSUME ListingAssumption ==
    /\ Gids \subseteq Nat \ {0}
    /\ BarrierKeys \subseteq Nat
    /\ \A k \in BarrierKeys, g \in Gids : k < g
    /\ {"any", "none"} \cap Statuses = {}
    /\ UsizeSize \in Nat \ {0}
    /\ Limits \subseteq 0..UsizeSize - 1
    /\ Stores \subseteq {"sled", "sql"}

VARIABLES
    store,     \* the store of this server
    txns,      \* stored status of every transaction, "none" if there is none
    barriers,  \* barrier keys stored
    filter,    \* status asked for, or "any"
    offset,    \* where the next page begins
    limit,     \* size of the page being read
    pc,        \* the list: "idle", "scanning" or "scanned"
    cursor,    \* key the scan has read last
    vals,      \* what the scan has read, the values of Vec<Vec<u8>>
    page,      \* last page answered
    seen,      \* transactions on the pages answered so far
    matching   \* transactions stored and asked for since the walk began

dataVars == <<txns, barriers>>
scanVars == <<limit, pc, cursor, vals>>
walkVars == <<filter, offset, page, seen>>
vars == <<store, dataVars, scanVars, walkVars, matching>>

Value == [gid : Gids, status : Statuses]

StoredGids == {g \in Gids : txns[g] # "none"}

\* The status filter of list; a status it does not know asks for any.
Asked(status) == filter \in {"any", status}

\* A walk begins on any contents of the store.
Init ==
    /\ store \in Stores
    /\ txns \in [Gids -> Statuses \cup {"none"}]
    /\ barriers \in SUBSET BarrierKeys
    /\ filter \in Statuses \cup {"any"}
    /\ offset = 0 /\ limit = 0
    /\ pc = "idle" /\ cursor = 0
    /\ vals = {} /\ page = {}
    /\ seen = {}
    /\ matching = {g \in StoredGids : Asked(txns[g])}

-----------------------------------------------------------------------------

\* A transaction is started or changes its status.
TxnSaved(g, status) ==
    /\ txns[g] # status
    /\ txns' = [txns EXCEPT ![g] = status]
    /\ matching' = IF Asked(status) THEN matching ELSE matching \ {g}
    /\ UNCHANGED <<store, barriers, scanVars, walkVars>>

\* Only the SQL store has barrier keys among the rows it reads.
BarrierInserted(k) ==
    /\ store = "sql"
    /\ k \notin barriers
    /\ barriers' = barriers \cup {k}
    /\ UNCHANGED <<store, txns, scanVars, walkVars, matching>>

\* Mutant of ScanLimit: one more, to tell whether there is a next page.
ScanLimitLookahead == (offset + limit + 1) % UsizeSize

\* The number of values list has the store scan.
ScanLimit == (offset + limit) % UsizeSize

\* An offset that usize does not hold is not an offset (parse fails).
ListBegins(n) ==
    /\ pc = "idle"
    /\ offset < UsizeSize
    /\ limit' = n
    /\ pc' = "scanning"
    /\ UNCHANGED <<store, dataVars, cursor, vals, walkVars, matching>>

\* Mutant of Ahead: the iterator is resumed at the key it has read last.
AheadInclusive == {g \in StoredGids : g >= cursor}

\* Keys the sled iterator has still ahead.
Ahead == {g \in StoredGids : g > cursor}

SledReads ==
    /\ store = "sled" /\ pc = "scanning"
    /\ Cardinality(vals) < ScanLimit
    /\ \E g \in Ahead :
        /\ \A other \in Ahead : g <= other
        /\ cursor' = g
        /\ vals' = vals \cup {[gid |-> g, status |-> txns[g]]}
    /\ UNCHANGED <<store, dataVars, limit, pc, walkVars, matching>>

SledDone ==
    /\ store = "sled" /\ pc = "scanning"
    /\ Cardinality(vals) >= ScanLimit \/ Ahead = {}
    /\ pc' = "scanned"
    /\ UNCHANGED <<store, dataVars, limit, cursor, vals, walkVars, matching>>

\* How many keys of S come before k.
Rank(S, k) == Cardinality({x \in S : x < k})

\* The first n rows of the table, in the order of its primary key.
FirstRows(n) == {k \in StoredGids \cup barriers : Rank(StoredGids \cup barriers, k) < n}

SqlReads ==
    /\ store = "sql" /\ pc = "scanning"
    /\ vals' = {[gid |-> g, status |-> txns[g]] : g \in FirstRows(ScanLimit) \cap Gids}
    /\ pc' = "scanned"
    /\ UNCHANGED <<store, dataVars, limit, cursor, walkVars, matching>>

\* The transactions a scan has read.
Read == {v.gid : v \in vals}

\* Mutant of Page: the filter runs before the skip.
PageFilteredFirst ==
    LET kept == {v \in vals : Asked(v.status)}
    IN  {v \in kept : Rank({w.gid : w \in kept}, v.gid) >= offset}

\* skip(offset), then the status filter.
Page == {v \in vals : Rank(Read, v.gid) >= offset /\ Asked(v.status)}

\* The page is answered; the client goes on behind it.
ListAnswers ==
    /\ pc = "scanned"
    /\ page' = Page
    /\ seen' = seen \cup {v.gid : v \in Page}
    /\ offset' = offset + limit
    /\ pc' = "idle" /\ cursor' = 0 /\ vals' = {}
    /\ UNCHANGED <<store, dataVars, filter, limit, matching>>

Next ==
    \/ \E g \in Gids, status \in Statuses : TxnSaved(g, status)
    \/ \E k \in BarrierKeys : BarrierInserted(k)
    \/ \E n \in Limits : ListBegins(n)
    \/ SledReads \/ SledDone \/ SqlReads
    \/ ListAnswers

Spec == Init /\ [][Next]_vars

-----------------------------------------------------------------------------
(* Properties.                                                             *)

\* Every variable holds a value of its type, and a scan reads no transaction
\* twice.
TypeOK ==
    /\ store \in Stores
    /\ txns \in [Gids -> Statuses \cup {"none"}]
    /\ barriers \subseteq BarrierKeys
    /\ filter \in Statuses \cup {"any"}
    /\ offset \in Nat /\ limit \in Limits \cup {0}
    /\ pc \in {"idle", "scanning", "scanned"}
    /\ cursor \in Gids \cup {0}
    /\ vals \subseteq Value /\ page \subseteq Value
    /\ seen \subseteq Gids /\ matching \subseteq StoredGids
    /\ \A v, w \in vals : v.gid = w.gid => v = w

\* No page is longer than its limit, also when offset + limit wraps.
PageFits == pc = "idle" => Cardinality(page) <= limit

\* A transaction that was there when the walk began and had the status asked for
\* all along has been on a page once the walk has got past its position, which is
\* the number of transactions in front of it now. (A walk whose offset + limit
\* exceeds usize is over.)
NothingMissed ==
    offset < UsizeSize =>
        \A g \in matching : Rank(StoredGids, g) < offset => g \in seen

\* A walk misses nothing, whatever is started or changed meanwhile, also behind
\* the iterator; of a SQL store only while no branch of any transaction has
\* passed a barrier.
WalkComplete == (store = "sql" => barriers = {}) => NothingMissed

=============================================================================
