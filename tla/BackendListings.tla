--------------------------- MODULE BackendListings ---------------------------
(***************************************************************************)
(* One operator's listings in the two repositories, called in lockstep:    *)
(* the plan cap as each counts it, the deletion, and the filters of the    *)
(* public browse, where memory.ts tests JavaScript values and drizzle.ts   *)
(* leaves the test to Postgres, for which a missing value is NULL and a    *)
(* comparison with NULL passes no row.                                     *)
(***************************************************************************)
EXTENDS Naturals, FiniteSets

CONSTANTS
    Lots,          \* listing ids
    Markets,       \* the verticals that share the database
    Market         \* the vertical this deployment serves

ASSUME ListingsAssumption ==
    /\ Market \in Markets
    /\ IsFiniteSet(Lots)

VARIABLES
    shelf,         \* MemoryRepo.listings
    stock,         \* the listings table
    owner,         \* the operator's row: suspended, average stars
    outcome        \* the two answered the last write alike

listingVars == <<shelf, stock, owner, outcome>>

-----------------------------------------------------------------------------
NoLotRow == [status |-> "none"]
Null == 0
Days == 1 .. 2
Stars == {3, 5}

\* The attributes the filters read.  A leg is the dated one-shot inventory of a
\* vertical with an expiry; hours is any number facet, and may hold a word.
Shapes ==
    {[kind |-> "leg",   day |-> 1,    hours |-> "none"],
     [kind |-> "leg",   day |-> 2,    hours |-> "1"],
     [kind |-> "leg",   day |-> Null, hours |-> "2"],
     [kind |-> "craft", day |-> 1,    hours |-> "word"]}

ListingStatuses == {"draft", "active", "paused", "archived", "sold"}
OffBook == {"archived", "sold"}

ListingRow == [status : ListingStatuses, market : Markets, shape : Shapes]

ListingsInit ==
    /\ shelf = [l \in Lots |-> NoLotRow]
    /\ stock = [l \in Lots |-> NoLotRow]
    /\ owner = [suspended |-> FALSE, stars |-> Null]
    /\ outcome = TRUE

-----------------------------------------------------------------------------
\* What a call leaves in a repository and what it answers.
After(db, answer) == [db |-> db, answer |-> answer]

Shelved == {l \in Lots : shelf[l].status # "none"}
Stocked == {l \in Lots : stock[l].status # "none"}

MemOnBook(m) == {l \in Shelved : shelf[l].status \notin OffBook /\ shelf[l].market = m}
SqlOnBook(m) == {l \in Stocked : stock[l].status \notin OffBook /\ stock[l].market = m}

NoCap == 9
Caps == {1, NoCap}

MemCreate(l, row, cap) ==
    IF cap # NoCap /\ Cardinality(MemOnBook(row.market)) >= cap THEN After(shelf, "cap")
    ELSE After([shelf EXCEPT ![l] = row], "yes")

SqlCreate(l, row, cap) ==
    IF cap # NoCap /\ Cardinality(SqlOnBook(row.market)) >= cap THEN After(stock, "cap")
    ELSE After([stock EXCEPT ![l] = row], "yes")

\* MemoryRepo counts the other listings.
MemStatus(l, s, cap) ==
    IF l \notin Shelved THEN After(shelf, "void")
    ELSE IF /\ s = "active" /\ cap # NoCap
            /\ Cardinality(MemOnBook(shelf[l].market) \ {l}) >= cap
         THEN After(shelf, "cap")
    ELSE After([shelf EXCEPT ![l].status = s], "void")

\* DrizzleRepo counts all of them, and takes the listing itself off the count
\* when its row was in it.
SqlStatus(l, s, cap) ==
    LET all == Cardinality(SqlOnBook(stock[l].market))
        selfCounted == IF stock[l].status \in OffBook THEN 0 ELSE 1
    IN  IF l \notin Stocked THEN After(stock, "void")
        ELSE IF s = "active" /\ cap # NoCap /\ all - selfCounted >= cap
             THEN After(stock, "cap")
        ELSE After([stock EXCEPT ![l].status = s], "void")

MemUpdate(l, shape) ==
    After(IF l \in Shelved THEN [shelf EXCEPT ![l].shape = shape] ELSE shelf, "void")
SqlUpdate(l, shape) ==
    After(IF l \in Stocked THEN [stock EXCEPT ![l].shape = shape] ELSE stock, "void")

MemDelete(l, m) ==
    IF \/ l \notin Shelved \/ shelf[l].market # m
       \/ shelf[l].status # "draft" /\ shelf[l].status # "archived"
    THEN After(shelf, "no")
    ELSE After([shelf EXCEPT ![l] = NoLotRow], "yes")

SqlDelete(l, m) ==
    LET gone == {x \in Stocked : /\ x = l /\ stock[x].market = m
                                 /\ stock[x].status \in {"draft", "archived"}}
    IN  After([x \in Lots |-> IF x \in gone THEN NoLotRow ELSE stock[x]],
              IF gone # {} THEN "yes" ELSE "no")

-----------------------------------------------------------------------------
\* The filters.  A filter is a conjunction of these tests in both repositories,
\* so the two return the same listings when they agree on each test.
Number(h) == CASE h = "1" -> 1 [] h = "2" -> 2 [] OTHER -> Null

\* parseParams emits a range with at least one bound; Null stands for the other.
Ranges == {r \in [min : {Null, 1, 2}, max : {Null, 1, 2}] : r.min # Null \/ r.max # Null}

Passes(v, r) == (r.min = Null \/ v >= r.min) /\ (r.max = Null \/ v <= r.max)

\* memory.ts drops what Number() makes NaN; a date it drops unless it is a string.
MemRange(l, r) == Number(shelf[l].shape.hours) # Null /\ Passes(Number(shelf[l].shape.hours), r)
MemDateRange(l, r) == shelf[l].shape.day # Null /\ Passes(shelf[l].shape.day, r)
MemUnexpired(l, asOf) ==
    \/ shelf[l].shape.kind # "leg"
    \/ shelf[l].shape.day = Null
    \/ shelf[l].shape.day >= asOf
MemRated(n) == (IF owner.stars = Null THEN FALSE ELSE owner.stars >= n)

\* In SQL each bound is a condition of its own, and NULL meets none of them.
SqlAtLeast(v, n) == v # Null /\ v >= n
SqlAtMost(v, n) == v # Null /\ v <= n
SqlBounds(v, r) ==
    /\ r.min # Null => SqlAtLeast(v, r.min)
    /\ r.max # Null => SqlAtMost(v, r.max)
SqlRange(l, r) == SqlBounds(Number(stock[l].shape.hours), r)
SqlDateRange(l, r) == SqlBounds(stock[l].shape.day, r)

\* A bug this module guards against: the date compared without the NULL test.
SqlUnexpiredNull(l, asOf) == stock[l].shape.kind # "leg" \/ SqlAtLeast(stock[l].shape.day, asOf)

SqlUnexpired(l, asOf) ==
    \/ stock[l].shape.kind # "leg"
    \/ stock[l].shape.day = Null
    \/ SqlAtLeast(stock[l].shape.day, asOf)
SqlRated(n) == SqlAtLeast(owner.stars, n)

AsOf == 1 .. 3

-----------------------------------------------------------------------------
\* The public reads, of the day asOf.  The directory counts in a statement of
\* its own; the profile page lists through the filters.
MemBrowse(m, asOf) ==
    {l \in Shelved : /\ shelf[l].status = "active" /\ shelf[l].market = m
                     /\ ~owner.suspended /\ MemUnexpired(l, asOf)}
SqlBrowse(m, asOf) ==
    {l \in Stocked : /\ stock[l].status = "active" /\ stock[l].market = m
                     /\ ~owner.suspended /\ SqlUnexpired(l, asOf)}

\* The profile answers 404 for a suspended operator.
Profile(m, asOf) == IF owner.suspended THEN {} ELSE SqlBrowse(m, asOf)

MemDirectory(m, asOf) ==
    LET counted == {l \in Shelved : /\ shelf[l].status = "active" /\ shelf[l].market = m
                                    /\ ~(/\ shelf[l].shape.kind = "leg"
                                         /\ shelf[l].shape.day # Null
                                         /\ shelf[l].shape.day < asOf)}
    IN  IF owner.suspended THEN 0 ELSE Cardinality(counted)

SqlDirectory(m, asOf) ==
    Cardinality({l \in Stocked : /\ stock[l].market = m /\ stock[l].status = "active"
                                 /\ ~owner.suspended
                                 /\ \/ stock[l].shape.kind # "leg"
                                    \/ stock[l].shape.day = Null
                                    \/ SqlAtLeast(stock[l].shape.day, asOf)})

-----------------------------------------------------------------------------
\* A call made of both.
WriteBoth(m, s) ==
    /\ shelf' = m.db /\ stock' = s.db
    /\ outcome' = (m.answer = s.answer)
    /\ UNCHANGED owner

\* POST /api/listings and .../duplicate: the new row is active, or a draft.
CreateBoth ==
    \E l \in Lots, s \in {"active", "draft"}, m \in Markets, shape \in Shapes, cap \in Caps :
        LET row == [status |-> s, market |-> m, shape |-> shape]
        IN  /\ shelf[l].status = "none"
            /\ WriteBoth(MemCreate(l, row, cap), SqlCreate(l, row, cap))

StatusBoth ==
    \E l \in Lots, s \in ListingStatuses, cap \in Caps :
        WriteBoth(MemStatus(l, s, cap), SqlStatus(l, s, cap))

UpdateBoth ==
    \E l \in Lots, shape \in Shapes : WriteBoth(MemUpdate(l, shape), SqlUpdate(l, shape))

DeleteBoth ==
    \E l \in Lots, m \in Markets : WriteBoth(MemDelete(l, m), SqlDelete(l, m))

\* The operator's row: suspension, and the buyers' stars.
OwnerChanges ==
    /\ \/ owner' = [owner EXCEPT !.suspended = ~@]
       \/ owner.stars = Null /\ \E n \in Stars : owner' = [owner EXCEPT !.stars = n]
    /\ UNCHANGED <<shelf, stock, outcome>>

ListingsNext == CreateBoth \/ StatusBoth \/ UpdateBoth \/ DeleteBoth \/ OwnerChanges

-----------------------------------------------------------------------------
\* The rows of the two stores keep to their domains.
ListingsTypeOK ==
    /\ shelf \in [Lots -> ListingRow \cup {NoLotRow}]
    /\ stock \in [Lots -> ListingRow \cup {NoLotRow}]
    /\ owner \in [suspended : BOOLEAN, stars : Stars \cup {Null}]
    /\ outcome \in BOOLEAN

\* No sequence of calls tells the two repositories apart: the same rows, the
\* same answer to every write, a cap that bites at the same listing, and the same
\* listings behind every test of the public browse whatever attribute is missing.
ListingsAgree ==
    /\ shelf = stock
    /\ outcome
    /\ \A m \in Markets : MemOnBook(m) = SqlOnBook(m)
    /\ \A l \in Shelved \cap Stocked :
         /\ \A r \in Ranges : /\ MemRange(l, r) <=> SqlRange(l, r)
                              /\ MemDateRange(l, r) <=> SqlDateRange(l, r)
         /\ \A d \in AsOf : MemUnexpired(l, d) <=> SqlUnexpired(l, d)
    /\ \A n \in 1 .. 5 : MemRated(n) <=> SqlRated(n)
    /\ \A d \in AsOf : MemBrowse(Market, d) = SqlBrowse(Market, d)

\* "A directory count must equal the listings the profile shows" (drizzle.ts):
\* in both repositories, on every day, for undated, dated and departed legs.
DirectoryMatchesProfile ==
    \A d \in AsOf :
        /\ SqlDirectory(Market, d) = Cardinality(Profile(Market, d))
        /\ MemDirectory(Market, d) = Cardinality(Profile(Market, d))
=============================================================================
