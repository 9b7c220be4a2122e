--------------------------- MODULE BackendProofs ---------------------------
(***************************************************************************)
(* No sequence of calls tells the memory repository from Postgres: for     *)
(* each part of the Repo interface, that the two stay the same rows under  *)
(* the mapping of their types, whatever the rows, callers and arguments.   *)
(*                                                                         *)
(* In each part the strengthening is the coupling of the two sets of       *)
(* tables: the property compares what a reader sees, the coupling says     *)
(* why.  Where the two are written alike the coupling is equality, and a   *)
(* step preserves it because both compute the same value; the other calls  *)
(* have a lemma of their own.                                              *)
(***************************************************************************)
EXTENDS BackendRequests, BackendTrade, BackendDesk, BackendAccounts, BackendListings,
        FiniteSetTheorems, TLAPS

-----------------------------------------------------------------------------
(* Listings.                                                               *)

\* The two hold the same listings and answered alike.
SameShelves == shelf = stock /\ outcome
ListingsInv == ListingsTypeOK /\ SameShelves

\* A call that leaves and answers the same in both.
LEMMA ListingsWrittenAlike ==
    ASSUME ListingsInv, NEW m, NEW s, m = s, WriteBoth(m, s),
           m.db \in [Lots -> ListingRow \cup {NoLotRow}]
    PROVE  ListingsInv'
<1>1. shelf' = m.db /\ stock' = m.db /\ owner' = owner
  BY DEF WriteBoth
<1>2. outcome' /\ outcome' \in BOOLEAN
  BY DEF WriteBoth
<1>3. owner' \in [suspended : BOOLEAN, stars : Stars \cup {Null}]
  BY <1>1 DEF ListingsInv, ListingsTypeOK
<1> QED BY <1>1, <1>2, <1>3 DEF ListingsInv, ListingsTypeOK, SameShelves

\* memory.ts counts the other listings, drizzle.ts takes the listing off the
\* count of all when its row was in it: the same number.
LEMMA CapsAgree ==
    ASSUME ListingsInv, NEW l \in Shelved
    PROVE  Cardinality(MemOnBook(shelf[l].market) \ {l})
             = Cardinality(SqlOnBook(stock[l].market))
                 - (IF stock[l].status \in OffBook THEN 0 ELSE 1)
<1> DEFINE S == SqlOnBook(stock[l].market)
<1>1. shelf = stock /\ l \in Lots
  BY DEF ListingsInv, SameShelves, Shelved
<1>2. MemOnBook(shelf[l].market) = S
  BY <1>1 DEF MemOnBook, SqlOnBook, Shelved, Stocked
<1>3. l \in S <=> stock[l].status \notin OffBook
  BY <1>1 DEF SqlOnBook, Shelved, Stocked
<1>4. SqlOnBook(stock[l].market) = S
  OBVIOUS
<1>5. IsFiniteSet(S)
  <2>1. S \subseteq Lots
    BY DEF SqlOnBook, Stocked
  <2> QED BY <2>1, ListingsAssumption, FS_Subset
<1> HIDE DEF S
<1>6. Cardinality(S) \in Nat
  BY <1>5, FS_CardinalityType
<1>7. CASE l \in S
  BY <1>4, <1>2, <1>3, <1>5, <1>7, FS_RemoveElement
<1>8. CASE l \notin S
  <2>1. S \ {l} = S
    BY <1>8
  <2> QED BY <1>4, <1>2, <1>3, <1>6, <1>8, <2>1
<1> QED BY <1>7, <1>8

LEMMA ListingsCorrect == ListingsInit /\ [][ListingsNext]_listingVars => []ListingsInv
<1>1. ListingsInit => ListingsInv
  BY DEF ListingsInit, ListingsInv, ListingsTypeOK, SameShelves
<1>2. ASSUME ListingsInv, [ListingsNext]_listingVars PROVE ListingsInv'
  <2>1. /\ shelf = stock /\ Shelved = Stocked
        /\ shelf \in [Lots -> ListingRow \cup {NoLotRow}]
    BY <1>2 DEF ListingsInv, SameShelves, Shelved, Stocked, ListingsTypeOK
  <2>2. \A l \in Shelved : shelf[l] \in ListingRow
    BY <2>1 DEF Shelved, NoLotRow
  <2>3. CASE CreateBoth
    <3>1. PICK l \in Lots, s \in {"active", "draft"}, m \in Markets, shape \in Shapes, cap \in Caps :
             WriteBoth(MemCreate(l, [status |-> s, market |-> m, shape |-> shape], cap),
                       SqlCreate(l, [status |-> s, market |-> m, shape |-> shape], cap))
      BY <2>3 DEF CreateBoth
    <3> DEFINE row == [status |-> s, market |-> m, shape |-> shape]
    <3>2. row \in ListingRow
      BY DEF ListingRow, ListingStatuses
    <3> HIDE DEF row
    <3>3. MemCreate(l, row, cap) = SqlCreate(l, row, cap)
      BY <2>1 DEF MemCreate, SqlCreate, MemOnBook, SqlOnBook
    <3>4. MemCreate(l, row, cap).db \in [Lots -> ListingRow \cup {NoLotRow}]
      BY <2>1, <3>2 DEF MemCreate, After
    <3> QED BY <1>2, <3>1, <3>3, <3>4, ListingsWrittenAlike DEF row
  <2>4. CASE StatusBoth
    <3>1. PICK l \in Lots, s \in ListingStatuses, cap \in Caps :
             WriteBoth(MemStatus(l, s, cap), SqlStatus(l, s, cap))
      BY <2>4 DEF StatusBoth
    <3>2. MemStatus(l, s, cap) = SqlStatus(l, s, cap)
      <4>1. CASE l \notin Shelved
        BY <2>1, <4>1 DEF MemStatus, SqlStatus
      <4>2. CASE l \in Shelved
        BY <1>2, <2>1, <4>2, CapsAgree DEF MemStatus, SqlStatus
      <4> QED BY <4>1, <4>2
    <3>3. MemStatus(l, s, cap).db \in [Lots -> ListingRow \cup {NoLotRow}]
      <4>1. ASSUME l \in Shelved PROVE [shelf[l] EXCEPT !.status = s] \in ListingRow
        BY <2>2, <4>1 DEF ListingRow
      <4> QED BY <2>1, <4>1 DEF MemStatus, After
    <3> QED BY <1>2, <3>1, <3>2, <3>3, ListingsWrittenAlike
  <2>5. CASE UpdateBoth
    <3>1. PICK l \in Lots, shape \in Shapes : WriteBoth(MemUpdate(l, shape), SqlUpdate(l, shape))
      BY <2>5 DEF UpdateBoth
    <3>2. MemUpdate(l, shape) = SqlUpdate(l, shape)
      BY <2>1 DEF MemUpdate, SqlUpdate
    <3>3. MemUpdate(l, shape).db \in [Lots -> ListingRow \cup {NoLotRow}]
      <4>1. ASSUME l \in Shelved PROVE [shelf[l] EXCEPT !.shape = shape] \in ListingRow
        BY <2>2, <4>1 DEF ListingRow
      <4> QED BY <2>1, <4>1 DEF MemUpdate, After
    <3> QED BY <1>2, <3>1, <3>2, <3>3, ListingsWrittenAlike
  <2>6. CASE DeleteBoth
    <3>1. PICK l \in Lots, m \in Markets : WriteBoth(MemDelete(l, m), SqlDelete(l, m))
      BY <2>6 DEF DeleteBoth
    <3> DEFINE ours == l \in Shelved /\ shelf[l].market = m /\ shelf[l].status \in {"draft", "archived"}
               left == IF ours THEN [shelf EXCEPT ![l] = NoLotRow] ELSE shelf
    <3>2. MemDelete(l, m) = After(left, IF ours THEN "yes" ELSE "no")
      BY DEF MemDelete
    <3>3. SqlDelete(l, m) = After(left, IF ours THEN "yes" ELSE "no")
      <4> DEFINE gone_ == {x \in Stocked : /\ x = l /\ stock[x].market = m
                                           /\ stock[x].status \in {"draft", "archived"}}
                 rest == [x \in Lots |-> IF x \in gone_ THEN NoLotRow ELSE stock[x]]
      <4>1. gone_ = IF ours THEN {l} ELSE {}
        BY <2>1
      <4>2. rest = left
        BY <2>1, <4>1
      <4>3. (IF gone_ # {} THEN "yes" ELSE "no") = (IF ours THEN "yes" ELSE "no")
        BY <4>1
      <4>4. SqlDelete(l, m) = After(rest, IF gone_ # {} THEN "yes" ELSE "no")
        BY DEF SqlDelete
      <4> QED BY <4>2, <4>3, <4>4
    <3>4. left \in [Lots -> ListingRow \cup {NoLotRow}]
      BY <2>1
    <3> HIDE DEF left, ours
    <3>5. MemDelete(l, m).db \in [Lots -> ListingRow \cup {NoLotRow}]
      BY <3>2, <3>4 DEF After
    <3> QED BY <1>2, <3>1, <3>2, <3>3, <3>5, ListingsWrittenAlike
  <2>7. CASE OwnerChanges
    <3>1. UNCHANGED <<shelf, stock, outcome>>
      BY <2>7 DEF OwnerChanges
    <3>2. owner \in [suspended : BOOLEAN, stars : Stars \cup {Null}]
      BY <1>2 DEF ListingsInv, ListingsTypeOK
    <3>3. \/ owner' = [owner EXCEPT !.suspended = ~owner.suspended]
          \/ \E n \in Stars : owner' = [owner EXCEPT !.stars = n]
      BY <2>7 DEF OwnerChanges
    <3>4. owner' \in [suspended : BOOLEAN, stars : Stars \cup {Null}]
      <4>1. \A x : [owner EXCEPT !.suspended = ~x]
                     \in [suspended : BOOLEAN, stars : Stars \cup {Null}]
        BY <3>2
      <4>2. \A n \in Stars : [owner EXCEPT !.stars = n]
                                  \in [suspended : BOOLEAN, stars : Stars \cup {Null}]
        BY <3>2
      <4> QED BY <3>3, <4>1, <4>2
    <3> QED BY <1>2, <3>1, <3>4 DEF ListingsInv, ListingsTypeOK, SameShelves
  <2>8. CASE UNCHANGED listingVars
    BY <1>2, <2>8 DEF listingVars, ListingsInv, ListingsTypeOK, SameShelves
  <2> QED BY <1>2, <2>3, <2>4, <2>5, <2>6, <2>7, <2>8 DEF ListingsNext
<1> QED BY <1>1, <1>2, PTL

\* A range has a bound, so a value that is missing passes neither test: memory.ts
\* drops it, and NULL meets no comparison.
LEMMA BoundsAgree ==
    ASSUME NEW v \in {Null, 1, 2}, NEW r \in Ranges
    PROVE  (v # Null /\ Passes(v, r)) <=> SqlBounds(v, r)
BY DEF Ranges, Passes, SqlBounds, SqlAtLeast, SqlAtMost, Null

LEMMA ShapesRead ==
    ASSUME NEW shape \in Shapes
    PROVE  shape.day \in {Null, 1, 2} /\ Number(shape.hours) \in {Null, 1, 2}
BY DEF Shapes, Number, Null

\* The public reads of both repositories list the same rows.
LEMMA BrowsesAgree ==
    ASSUME ListingsInv, NEW m, NEW d \in AsOf
    PROVE  /\ \A l \in Shelved : MemUnexpired(l, d) <=> SqlUnexpired(l, d)
           /\ MemBrowse(m, d) = SqlBrowse(m, d)
<1>1. shelf = stock /\ Shelved = Stocked
  BY DEF ListingsInv, SameShelves, Shelved, Stocked
<1>2. \A l \in Shelved : shelf[l].shape \in Shapes
  BY DEF Shelved, ListingsInv, ListingsTypeOK, ListingRow, NoLotRow
<1>3. \A l \in Shelved : MemUnexpired(l, d) <=> SqlUnexpired(l, d)
  BY <1>1, <1>2, ShapesRead DEF MemUnexpired, SqlUnexpired, SqlAtLeast
<1> QED BY <1>1, <1>3 DEF MemBrowse, SqlBrowse

LEMMA ShelvesAgree == ASSUME ListingsInv PROVE ListingsAgree
<1>1. shelf = stock /\ outcome /\ Shelved = Stocked
  BY DEF ListingsInv, SameShelves, Shelved, Stocked
<1>2. \A m \in Markets : MemOnBook(m) = SqlOnBook(m)
  BY <1>1 DEF MemOnBook, SqlOnBook
<1>3. \A l \in Shelved \cap Stocked, r \in Ranges :
        /\ MemRange(l, r) <=> SqlRange(l, r)
        /\ MemDateRange(l, r) <=> SqlDateRange(l, r)
  <2> TAKE l \in Shelved \cap Stocked, r \in Ranges
  <2>1. shelf[l].shape \in Shapes
    BY DEF Shelved, ListingsInv, ListingsTypeOK, ListingRow, NoLotRow
  <2> QED BY <1>1, <2>1, ShapesRead, BoundsAgree DEF MemRange, SqlRange, MemDateRange, SqlDateRange
<1>4. \A n \in 1 .. 5 : MemRated(n) <=> SqlRated(n)
  BY DEF MemRated, SqlRated, SqlAtLeast
<1> QED BY <1>1, <1>2, <1>3, <1>4, BrowsesAgree, ListingsAssumption DEF ListingsAgree

\* The directory's statement selects what the profile's filters list; of a
\* suspended operator both select nothing.
LEMMA DirectoryCounts == ASSUME ListingsInv PROVE DirectoryMatchesProfile
<1> SUFFICES ASSUME NEW d \in AsOf
             PROVE  /\ SqlDirectory(Market, d) = Cardinality(Profile(Market, d))
                    /\ MemDirectory(Market, d) = Cardinality(Profile(Market, d))
  BY DEF DirectoryMatchesProfile
<1> DEFINE counted == {l \in Stocked : /\ stock[l].market = Market /\ stock[l].status = "active"
                                       /\ ~owner.suspended
                                       /\ \/ stock[l].shape.kind # "leg"
                                          \/ stock[l].shape.day = Null
                                          \/ SqlAtLeast(stock[l].shape.day, d)}
           upAndComing == {l \in Shelved : /\ shelf[l].status = "active" /\ shelf[l].market = Market
                                           /\ ~(/\ shelf[l].shape.kind = "leg"
                                                /\ shelf[l].shape.day # Null
                                                /\ shelf[l].shape.day < d)}
<1>1. shelf = stock /\ Shelved = Stocked
  BY DEF ListingsInv, SameShelves, Shelved, Stocked
<1>2. counted = Profile(Market, d)
  BY <1>1 DEF Profile, SqlBrowse, SqlUnexpired
<1>3. ~owner.suspended => upAndComing = Profile(Market, d)
  <2>1. \A l \in Shelved : shelf[l].shape \in Shapes
    BY DEF Shelved, ListingsInv, ListingsTypeOK, ListingRow, NoLotRow
  <2>2. \A l \in Shelved : shelf[l].shape.day \in {Null, 1, 2}
    BY <2>1, ShapesRead
  <2> QED BY <1>1, <2>2 DEF Profile, SqlBrowse, SqlUnexpired, SqlAtLeast, AsOf, Null
<1>4. SqlDirectory(Market, d) = Cardinality(counted)
  BY DEF SqlDirectory
<1>5. MemDirectory(Market, d) = IF owner.suspended THEN 0 ELSE Cardinality(upAndComing)
  BY DEF MemDirectory
<1>6. CASE owner.suspended
  BY <1>2, <1>4, <1>5, <1>6, FS_EmptySet DEF Profile
<1>7. CASE ~owner.suspended
  BY <1>2, <1>3, <1>4, <1>5, <1>7
<1> QED BY <1>6, <1>7

-----------------------------------------------------------------------------
(* The mailbox's desk.                                                     *)

PlaceRow == [rfq : RfqStates, mine : BOOLEAN, fields : BOOLEAN, rungs : Trails,
             counter : BOOLEAN, noted : BOOLEAN, alert : BOOLEAN]
Flags_ == [Reports -> Flag \cup {NoFlag}]

\* The deletion reaches a request's edits, counters and notes through the
\* requests the mailbox owns, so it leaves nothing only because a request that
\* is not the mailbox's carries nothing of it.
Untraced(p) == ~p.fields /\ p.rungs # "mine" /\ ~p.counter /\ ~p.noted
OwnedTraces(db) == \A v \in Verticals : ~db.at[v].mine => Untraced(db.at[v])

ErasedIn(db, g) ==
    /\ \A v \in g : ~Trace(db, v)
    /\ \A v \in Verticals \ ({Here} \cup g) : db.at[v] = Place(TRUE)

\* Postgres refuses a second open flag by an index and memory by a scan: both
\* find the same twin because no two open flags of the mailbox are alike.
GoodDesk(db, g) ==
    /\ db \in Stores
    /\ OpenDedupe(db.flag)
    /\ OwnedTraces(db)
    /\ ErasedIn(db, g)

DeskInv ==
    /\ heard /\ store = base
    /\ gone \subseteq Verticals
    /\ GoodDesk(store, gone)

LEMMA DeskInvImplies == ASSUME DeskInv PROVE DeskTypeOK /\ DesksAgree /\ ErasedIsGone
BY DEF DeskInv, GoodDesk, ErasedIn, DeskTypeOK, DesksAgree, ErasedIsGone

\* A call that leaves and answers the same in both.
LEMMA DesksWrittenAlike ==
    ASSUME NEW m, NEW s, m = s, BothDesks(m, s), gone' \subseteq Verticals,
           GoodDesk(m.db, gone')
    PROVE  DeskInv'
<1>1. store' = m.db /\ base' = m.db /\ heard'
  BY DEF BothDesks
<1>2. GoodDesk(store', gone')
  BY <1>1
<1> QED BY <1>1, <1>2 DEF DeskInv, GoodDesk, OpenDedupe, OwnedTraces, ErasedIn, Untraced, Trace,
        Stores, Flag, NoFlag, Place

\* The mailbox rewrites its row of this marketplace.
LEMMA PlaceRewritten ==
    ASSUME NEW db, NEW g \in SUBSET Verticals, GoodDesk(db, g),
           NEW p \in PlaceRow, ~p.mine => Untraced(p),
           NEW h \in SUBSET g, g \ h \subseteq {Here},
           Here \in h => ~p.mine /\ ~p.alert
    PROVE  GoodDesk(At(db, Here, p), h)
<1> DEFINE new == At(db, Here, p)
<1>1. db \in Stores /\ OpenDedupe(db.flag) /\ OwnedTraces(db) /\ ErasedIn(db, g)
  BY DEF GoodDesk
<1>2. Here \in Verticals
  BY DeskAssumption
<1>3. new \in Stores
  BY <1>1, <1>2 DEF At, Stores, PlaceRow
<1>4. /\ new.flag = db.flag
      /\ new.at[Here] = p
      /\ \A v \in Verticals \ {Here} : new.at[v] = db.at[v]
  BY <1>1, <1>2 DEF At, Stores
<1> HIDE DEF new
<1>5. OwnedTraces(new)
  BY <1>1, <1>4 DEF OwnedTraces
<1>6. \A v \in h : ~Trace(new, v)
  <2> TAKE v \in h
  <2>1. \A f \in Reports : ~(new.flag[f] # NoFlag /\ new.flag[f].at = v /\ new.flag[f].mine)
    BY <1>1, <1>4 DEF ErasedIn, Trace
  <2>2. CASE v = Here
    BY <1>4, <2>1, <2>2 DEF Trace, Untraced
  <2>3. CASE v # Here
    <3>1. new.at[v] = db.at[v] /\ ~Trace(db, v)
      BY <1>1, <1>4, <2>3 DEF ErasedIn
    <3> QED BY <2>1, <3>1 DEF Trace
  <2> QED BY <2>2, <2>3
<1>7. \A v \in Verticals \ ({Here} \cup h) : new.at[v] = Place(TRUE)
  BY <1>1, <1>4 DEF ErasedIn
<1>8. OpenDedupe(new.flag)
  BY <1>1, <1>4
<1> QED BY <1>3, <1>5, <1>6, <1>7, <1>8 DEF GoodDesk, ErasedIn, new

\* Flags change and none that names the mailbox is new.
LEMMA FlagsRewritten ==
    ASSUME NEW db, NEW g \in SUBSET Verticals, GoodDesk(db, g),
           NEW flags_ \in Flags_, OpenDedupe(flags_),
           NEW h \in SUBSET g, g \ h \subseteq {Here},
           \A f \in Reports : flags_[f] # NoFlag /\ flags_[f].mine /\ flags_[f].at \in h =>
                /\ db.flag[f] # NoFlag /\ db.flag[f].mine
                /\ db.flag[f].at = flags_[f].at
    PROVE  GoodDesk([db EXCEPT !.flag = flags_], h)
<1> DEFINE new == [db EXCEPT !.flag = flags_]
<1>1. db \in Stores /\ OwnedTraces(db) /\ ErasedIn(db, g)
  BY DEF GoodDesk
<1>2. new \in Stores /\ new.flag = flags_ /\ new.at = db.at
  BY <1>1 DEF Stores, Flags_
<1> HIDE DEF new
<1>3. \A v \in h : ~Trace(new, v)
  <2> TAKE v \in h
  <2>1. ~Trace(db, v)
    BY <1>1 DEF ErasedIn
  <2> QED BY <1>2, <2>1 DEF Trace
<1>4. \A v \in Verticals \ ({Here} \cup h) : new.at[v] = Place(TRUE)
  BY <1>1, <1>2 DEF ErasedIn
<1> QED BY <1>1, <1>2, <1>3, <1>4 DEF GoodDesk, ErasedIn, OwnedTraces, new

\* The account, the listing's flag and the block list carry no trace of their own.
LEMMA RestRewritten ==
    ASSUME NEW db, NEW g \in SUBSET Verticals, GoodDesk(db, g)
    PROVE  /\ \A u \in {"none", "buyer", "operator"} : GoodDesk([db EXCEPT !.user = u], g)
           /\ \A s \in ListingFlags, b \in BOOLEAN :
                GoodDesk([db EXCEPT !.onListing = s], g)
                /\ GoodDesk([db EXCEPT !.listed = b, !.onListing = s], g)
           /\ \A b \in BOOLEAN : GoodDesk([db EXCEPT !.blocked = b], g)
<1>1. db \in Stores /\ OpenDedupe(db.flag) /\ OwnedTraces(db) /\ ErasedIn(db, g)
  BY DEF GoodDesk
<1>2. ASSUME NEW new \in Stores, new.at = db.at, new.flag = db.flag
      PROVE  GoodDesk(new, g)
  <2>1. OpenDedupe(new.flag) /\ OwnedTraces(new)
    BY <1>1, <1>2 DEF OwnedTraces
  <2>2. ErasedIn(new, g)
    BY <1>1, <1>2, ZenonT(60) DEF ErasedIn, Trace
  <2> QED BY <1>2, <2>1, <2>2 DEF GoodDesk
<1>3. \A u \in {"none", "buyer", "operator"} :
        LET new == [db EXCEPT !.user = u]
        IN  new \in Stores /\ new.at = db.at /\ new.flag = db.flag
  BY <1>1 DEF Stores
<1>4. \A s \in ListingFlags, b \in BOOLEAN :
        /\ LET new == [db EXCEPT !.onListing = s]
           IN  new \in Stores /\ new.at = db.at /\ new.flag = db.flag
        /\ LET new == [db EXCEPT !.listed = b, !.onListing = s]
           IN  new \in Stores /\ new.at = db.at /\ new.flag = db.flag
  BY <1>1 DEF Stores
<1>5. \A b \in BOOLEAN :
        LET new == [db EXCEPT !.blocked = b]
        IN  new \in Stores /\ new.at = db.at /\ new.flag = db.flag
  BY <1>1 DEF Stores
<1> QED BY <1>2, <1>3, <1>4, <1>5

\* The mailbox's own calls: the same row in both repositories.
LEMMA MailboxCalls ==
    ASSUME DeskInv, NEW p \in PlaceRow, ~p.mine => Untraced(p),
           BothDesks(Answer(At(store, Here, p), "yes"), Answer(At(base, Here, p), "yes")),
           \/ gone' = gone \ {Here}
           \/ gone' = gone /\ (Here \in gone => ~p.mine /\ ~p.alert)
    PROVE  DeskInv'
<1>1. GoodDesk(store, gone) /\ gone \in SUBSET Verticals /\ store = base
  BY DEF DeskInv
<1>2. GoodDesk(At(store, Here, p), gone')
  <2>1. gone' \in SUBSET gone /\ gone \ gone' \subseteq {Here}
    OBVIOUS
  <2>2. Here \in gone' => ~p.mine /\ ~p.alert
    OBVIOUS
  <2> QED BY <1>1, <2>1, <2>2, PlaceRewritten
<1> DEFINE m == Answer(At(store, Here, p), "yes")
<1>3. m.db = At(store, Here, p)
  BY DEF Answer
<1>4. GoodDesk(m.db, gone')
  BY <1>2, <1>3
<1>5. m = Answer(At(base, Here, p), "yes") /\ gone' \subseteq Verticals
  BY <1>1
<1> HIDE DEF m
<1> QED BY <1>4, <1>5, DesksWrittenAlike DEF m

\* The row of this marketplace, read off the tables.
LEMMA HereRow ==
    ASSUME DeskInv
    PROVE  /\ store.at[Here] \in PlaceRow
           /\ ~store.at[Here].mine => Untraced(store.at[Here])
           /\ Here \in gone => ~store.at[Here].mine /\ ~store.at[Here].alert
<1>1. Here \in Verticals
  BY DeskAssumption
<1> QED BY <1>1 DEF DeskInv, GoodDesk, Stores, PlaceRow, OwnedTraces, ErasedIn, Trace

LEMMA MailboxSteps ==
    ASSUME DeskInv,
           \/ PostRfq \/ CloseRfq \/ Subscribe
           \/ \E b \in BOOLEAN : AmendRfq(b) \/ Counter(b)
    PROVE  DeskInv'
<1> DEFINE row == store.at[Here]
<1>1. /\ row \in PlaceRow /\ (~row.mine => Untraced(row))
      /\ Here \in gone => ~row.mine /\ ~row.alert
      /\ store = base
  BY HereRow DEF DeskInv
<1>2. CASE PostRfq
  <2> DEFINE p == [row EXCEPT !.rfq = "live", !.mine = TRUE, !.fields = TRUE]
  <2>1. p \in PlaceRow /\ p.mine
    BY <1>1 DEF PlaceRow, RfqStates
  <2>2. /\ BothDesks(Answer(At(store, Here, p), "yes"), Answer(At(base, Here, p), "yes"))
        /\ gone' = gone \ {Here}
    BY <1>1, <1>2 DEF PostRfq, Same
  <2> HIDE DEF p
  <2> QED BY <2>1, <2>2, MailboxCalls
<1>3. CASE CloseRfq
  <2> DEFINE p == [row EXCEPT !.rfq = "closed"]
  <2>1. p \in PlaceRow
    BY <1>1 DEF PlaceRow, RfqStates
  <2>2. (~p.mine => Untraced(p)) /\ (Here \in gone => ~p.mine /\ ~p.alert)
    BY <1>1 DEF PlaceRow, Untraced
  <2>3. /\ BothDesks(Answer(At(store, Here, p), "yes"), Answer(At(base, Here, p), "yes"))
        /\ gone' = gone
    BY <1>1, <1>3 DEF CloseRfq, Same
  <2> HIDE DEF p
  <2> QED BY <2>1, <2>2, <2>3, MailboxCalls
<1>4. CASE Subscribe
  <2> DEFINE p == [row EXCEPT !.alert = TRUE]
  <2>1. p \in PlaceRow
    BY <1>1 DEF PlaceRow
  <2>2. ~p.mine => Untraced(p)
    BY <1>1 DEF PlaceRow, Untraced
  <2>3. /\ BothDesks(Answer(At(store, Here, p), "yes"), Answer(At(base, Here, p), "yes"))
        /\ gone' = gone \ {Here}
    BY <1>1, <1>4 DEF Subscribe, Same
  <2> HIDE DEF p
  <2> QED BY <2>1, <2>2, <2>3, MailboxCalls
<1>5. ASSUME NEW contact \in BOOLEAN, AmendRfq(contact) PROVE DeskInv'
  <2> DEFINE trail == IF row.fields \/ row.rungs = "mine" THEN "mine" ELSE "clean"
             p == [row EXCEPT !.rungs = trail, !.fields = contact]
  <2>1. trail \in Trails
    BY DEF Trails
  <2>2. row.mine
    BY <1>5 DEF AmendRfq
  <2>3. /\ BothDesks(Answer(At(store, Here, p), "yes"), Answer(At(base, Here, p), "yes"))
        /\ gone' = gone \ {Here}
    BY <1>1, <1>5 DEF AmendRfq, Same
  <2> HIDE DEF trail
  <2>4. p \in PlaceRow /\ p.mine
    BY <1>1, <2>1, <2>2 DEF PlaceRow
  <2> HIDE DEF p
  <2> QED BY <2>3, <2>4, MailboxCalls
<1>6. ASSUME NEW note \in BOOLEAN, Counter(note) PROVE DeskInv'
  <2> DEFINE p == [row EXCEPT !.counter = note, !.noted = @ \/ note]
  <2>1. row.mine
    BY <1>6 DEF Counter
  <2>2. /\ BothDesks(Answer(At(store, Here, p), "yes"), Answer(At(base, Here, p), "yes"))
        /\ gone' = gone \ {Here}
    BY <1>1, <1>6 DEF Counter, Same
  <2>3. p \in PlaceRow /\ p.mine
    <3>1. \A x, y : [row EXCEPT !.counter = note, !.noted = x \/ y] \in PlaceRow
      BY <1>1 DEF PlaceRow
    <3>2. p \in PlaceRow
      BY <3>1
    <3> QED BY <1>1, <2>1, <3>2 DEF PlaceRow
  <2> HIDE DEF p
  <2> QED BY <2>2, <2>3, MailboxCalls
<1> QED BY <1>2, <1>3, <1>4, <1>5, <1>6

\* The mailbox's open flag is there to be scanned for exactly when a second row
\* like it would break the index.
LEMMA FilingsAgree ==
    ASSUME DeskInv, NEW f \in Reports, NEW k \in Kinds, FileReport(f, k)
    PROVE  DeskInv'
<1> DEFINE row == [kind |-> k, at |-> Here, open |-> TRUE, mine |-> TRUE]
           filed == [store.flag EXCEPT ![f] = row]
           twin == \E g \in Reports : store.flag[g] = row
<1>1. /\ store = base /\ GoodDesk(store, gone) /\ gone \in SUBSET Verticals
      /\ store.flag \in Flags_ /\ OpenDedupe(store.flag) /\ store.flag[f] = NoFlag
  BY DEF DeskInv, GoodDesk, Stores, Flags_, FileReport
<1>2. row # NoFlag /\ row \in Flag /\ row.at = Here /\ row.open /\ row.mine
  BY DeskAssumption DEF NoFlag, Flag
<1>3. BothDesks(MemFile(f, k, Here), SqlFile(f, k, Here)) /\ gone' = gone \ {Here}
  BY DEF FileReport
<1>4. MemFile(f, k, Here) = IF twin THEN Answer(store, "null")
                            ELSE Answer([store EXCEPT !.flag = filed], "yes")
  BY <1>1 DEF MemFile, Stores, Flags_
<1>5. SqlFile(f, k, Here) = IF OpenDedupe(filed) THEN Answer([store EXCEPT !.flag = filed], "yes")
                            ELSE Answer(store, "null")
  BY <1>1 DEF SqlFile, Stores, Flags_
<1> HIDE DEF row
<1>6. /\ filed \in Flags_ /\ filed[f] = row
      /\ \A g \in Reports \ {f} : filed[g] = store.flag[g]
  BY <1>1, <1>2 DEF Flags_
<1> HIDE DEF filed
<1>7. OpenDedupe(filed) <=> ~twin
  <2>1. ASSUME twin PROVE ~OpenDedupe(filed)
    <3>1. PICK g \in Reports : store.flag[g] = row
      BY <2>1
    <3>2. g # f /\ filed[g] = filed[f]
      BY <1>1, <1>2, <1>6, <3>1
    <3> QED BY <1>2, <1>6, <3>2 DEF OpenDedupe
  <2>2. ASSUME ~twin PROVE OpenDedupe(filed)
    <3> SUFFICES ASSUME NEW x \in Reports, NEW y \in Reports, x # y,
                        filed[x] # NoFlag, filed[x] = filed[y]
                 PROVE  ~filed[x].open \/ ~filed[x].mine
      BY DEF OpenDedupe
    <3>1. x # f /\ y # f
      BY <1>6, <2>2
    <3> QED BY <1>1, <1>6, <3>1 DEF OpenDedupe
  <2> QED BY <2>1, <2>2
<1> HIDE DEF twin
<1>8. CASE twin
  <2>1. GoodDesk(store, gone')
    <3>1. \A v \in gone' : ~Trace(store, v)
      BY <1>1, <1>3 DEF GoodDesk, ErasedIn
    <3>2. \A v \in Verticals \ ({Here} \cup gone') : store.at[v] = Place(TRUE)
      BY <1>1, <1>3 DEF GoodDesk, ErasedIn
    <3> QED BY <1>1, <3>1, <3>2 DEF GoodDesk, ErasedIn
  <2>2. MemFile(f, k, Here) = Answer(store, "null") /\ SqlFile(f, k, Here) = Answer(store, "null")
    BY <1>4, <1>5, <1>7, <1>8
  <2>3. Answer(store, "null").db = store
    BY DEF Answer
  <2>4. GoodDesk(MemFile(f, k, Here).db, gone')
    BY <2>1, <2>2, <2>3
  <2> QED BY <1>1, <1>3, <2>2, <2>4, DesksWrittenAlike
<1>9. CASE ~twin
  <2> DEFINE new == [store EXCEPT !.flag = filed]
  <2>1. GoodDesk(new, gone')
    <3>1. gone' \in SUBSET gone /\ gone \ gone' \subseteq {Here}
      BY <1>3
    <3>2. OpenDedupe(filed)
      BY <1>7, <1>9
    <3>3. \A g \in Reports : filed[g] # NoFlag /\ filed[g].mine /\ filed[g].at \in gone' =>
                /\ store.flag[g] # NoFlag /\ store.flag[g].mine
                /\ store.flag[g].at = filed[g].at
      BY <1>2, <1>3, <1>6
    <3> QED BY <1>1, <1>6, <3>1, <3>2, <3>3, FlagsRewritten
  <2>2. MemFile(f, k, Here) = Answer(new, "yes") /\ SqlFile(f, k, Here) = Answer(new, "yes")
    BY <1>4, <1>5, <1>7, <1>9
  <2> HIDE DEF new
  <2>3. Answer(new, "yes").db = new
    BY DEF Answer
  <2>4. GoodDesk(MemFile(f, k, Here).db, gone')
    BY <2>1, <2>2, <2>3
  <2> QED BY <1>1, <1>3, <2>2, <2>4, DesksWrittenAlike
<1> QED BY <1>8, <1>9

\* A flag that is decided, or withdrawn from the queue, names whom it named.
LEMMA FlagSteps ==
    ASSUME DeskInv,
           \/ \E f \in Reports : ResolveReport(f)
           \/ \E k \in Kinds : ResolveMine(k)
    PROVE  DeskInv'
<1>1. /\ store = base /\ GoodDesk(store, gone) /\ gone \in SUBSET Verticals
      /\ store.flag \in Flags_ /\ OpenDedupe(store.flag)
  BY DEF DeskInv, GoodDesk, Stores, Flags_
<1>2. ASSUME NEW set \in SUBSET Reports, \A f \in set : store.flag[f] # NoFlag
      PROVE  GoodDesk([store EXCEPT !.flag = [f \in Reports |->
                         IF f \in set THEN [store.flag[f] EXCEPT !.open = FALSE]
                         ELSE store.flag[f]]], gone)
  <2> DEFINE shut == [f \in Reports |-> IF f \in set THEN [store.flag[f] EXCEPT !.open = FALSE]
                                        ELSE store.flag[f]]
  <2>1. \A f \in set : /\ store.flag[f] \in Flag
                       /\ [store.flag[f] EXCEPT !.open = FALSE] \in Flag
    BY <1>1, <1>2 DEF Flags_, Flag
  <2>2. shut \in Flags_
    BY <1>1, <2>1 DEF Flags_
  <2>3. \A f \in Reports : /\ f \in set => /\ ~shut[f].open
                                           /\ shut[f].mine = store.flag[f].mine
                                           /\ shut[f].at = store.flag[f].at
                           /\ f \notin set => shut[f] = store.flag[f]
    BY <2>1 DEF Flag
  <2> HIDE DEF shut
  <2>4. OpenDedupe(shut)
    <3> SUFFICES ASSUME NEW f \in Reports, NEW g \in Reports, f # g, shut[f] # NoFlag,
                        shut[f] = shut[g], shut[f].open
                 PROVE  ~shut[f].mine
      BY DEF OpenDedupe
    <3>1. f \notin set /\ g \notin set
      BY <2>3
    <3> QED BY <1>1, <2>3, <3>1 DEF OpenDedupe
  <2>5. \A f \in Reports : shut[f] # NoFlag /\ shut[f].mine =>
                /\ store.flag[f] # NoFlag /\ store.flag[f].mine
                /\ store.flag[f].at = shut[f].at
    BY <1>2, <2>3
  <2>6. gone \in SUBSET gone /\ gone \ gone \subseteq {Here}
    OBVIOUS
  <2>7. GoodDesk([store EXCEPT !.flag = shut], gone)
    BY <1>1, <2>2, <2>4, <2>5, <2>6, FlagsRewritten
  <2> QED BY <2>7 DEF shut
<1>3. ASSUME NEW f \in Reports, ResolveReport(f) PROVE DeskInv'
  <2>1. BothDesks(MemResolve(f), SqlResolve(f)) /\ gone' = gone
    BY <1>3 DEF ResolveReport
  <2>2. MemResolve(f) = SqlResolve(f)
    BY <1>1 DEF MemResolve, SqlResolve
  <2>3. GoodDesk(MemResolve(f).db, gone)
    <3>1. CASE store.flag[f] = NoFlag \/ ~store.flag[f].open
      <4>1. MemResolve(f).db = store
        BY <3>1 DEF MemResolve, Answer
      <4> QED BY <1>1, <4>1
    <3>2. CASE ~(store.flag[f] = NoFlag \/ ~store.flag[f].open)
      <4> DEFINE shut == [g \in Reports |-> IF g \in {f} THEN [store.flag[g] EXCEPT !.open = FALSE]
                                            ELSE store.flag[g]]
      <4>1. MemResolve(f).db = [store EXCEPT !.flag[f].open = FALSE]
        BY <3>2 DEF MemResolve, Answer
      <4>2. [store.flag EXCEPT ![f].open = FALSE] = shut
        BY <1>1 DEF Flags_
      <4>3. MemResolve(f).db = [store EXCEPT !.flag = shut]
        BY <1>1, <4>1, <4>2 DEF GoodDesk, Stores
      <4> QED BY <1>2, <3>2, <4>3
    <3> QED BY <3>1, <3>2
  <2> QED BY <1>1, <2>1, <2>2, <2>3, DesksWrittenAlike
<1>4. ASSUME NEW k \in Kinds, ResolveMine(k) PROVE DeskInv'
  <2>1. BothDesks(MemResolveMine(k), SqlResolveMine(k)) /\ gone' = gone
    BY <1>4 DEF ResolveMine
  <2>2. MemResolveMine(k) = SqlResolveMine(k)
    BY <1>1 DEF MemResolveMine, SqlResolveMine
  <2> DEFINE set == Filed(store.flag, k)
  <2>3. set \in SUBSET Reports /\ \A f \in set : store.flag[f] # NoFlag
    BY DEF Filed
  <2>4. MemResolveMine(k).db = [store EXCEPT !.flag = [f \in Reports |->
                                   IF f \in set THEN [store.flag[f] EXCEPT !.open = FALSE]
                                   ELSE store.flag[f]]]
    BY <1>1 DEF MemResolveMine, Answer, GoodDesk, Stores
  <2> HIDE DEF set
  <2>5. GoodDesk(MemResolveMine(k).db, gone)
    BY <1>2, <2>3, <2>4
  <2> QED BY <1>1, <2>1, <2>2, <2>5, DesksWrittenAlike
<1> QED BY <1>3, <1>4

\* The account, the listing's flag and the block list.
LEMMA AccountSteps ==
    ASSUME DeskInv,
           \/ \E role \in {"buyer", "operator"} : SignIn(role)
           \/ FlagListing \/ ResolveListingReports \/ RemoveListing \/ Block \/ Unblock
    PROVE  DeskInv'
<1>1. store = base /\ GoodDesk(store, gone) /\ gone \in SUBSET Verticals /\ store \in Stores
  BY DEF DeskInv, GoodDesk
<1>2. ASSUME NEW role \in {"buyer", "operator"}, SignIn(role) PROVE DeskInv'
  <2> DEFINE m == Answer([store EXCEPT !.user = role], "yes")
  <2>1. BothDesks(m, m) /\ gone' = gone
    BY <1>1, <1>2 DEF SignIn, Same
  <2>2. GoodDesk([store EXCEPT !.user = role], gone)
    BY <1>1, RestRewritten
  <2>3. GoodDesk(m.db, gone)
    BY <2>2 DEF Answer
  <2> HIDE DEF m
  <2> QED BY <1>1, <2>1, <2>3, DesksWrittenAlike
<1>3. CASE FlagListing
  <2>1. BothDesks(MemFlagListing, SqlFlagListing) /\ gone' = gone
    BY <1>3 DEF FlagListing
  <2>2. MemFlagListing = SqlFlagListing
    BY <1>1 DEF MemFlagListing, SqlFlagListing
  <2>3. GoodDesk([store EXCEPT !.onListing = "open"], gone)
    BY <1>1, RestRewritten DEF ListingFlags
  <2>4. GoodDesk(MemFlagListing.db, gone)
    BY <1>1, <2>3 DEF MemFlagListing, Answer
  <2> QED BY <1>1, <2>1, <2>2, <2>4, DesksWrittenAlike
<1>4. CASE ResolveListingReports
  <2>1. BothDesks(MemResolveListing, SqlResolveListing) /\ gone' = gone
    BY <1>4 DEF ResolveListingReports
  <2>2. MemResolveListing = SqlResolveListing
    BY <1>1 DEF MemResolveListing, SqlResolveListing
  <2>3. GoodDesk([store EXCEPT !.onListing = "dismissed"], gone)
    BY <1>1, RestRewritten DEF ListingFlags
  <2>4. GoodDesk(MemResolveListing.db, gone)
    BY <1>1, <2>3 DEF MemResolveListing, Answer
  <2> QED BY <1>1, <2>1, <2>2, <2>4, DesksWrittenAlike
<1>5. CASE RemoveListing
  <2>1. BothDesks(MemDropListing, SqlDropListing) /\ gone' = gone
    BY <1>5 DEF RemoveListing
  <2>2. MemDropListing = SqlDropListing
    BY <1>1 DEF MemDropListing, SqlDropListing
  <2>3. GoodDesk([store EXCEPT !.listed = FALSE, !.onListing = "none"], gone)
    BY <1>1, RestRewritten DEF ListingFlags
  <2>4. GoodDesk(MemDropListing.db, gone)
    BY <1>1, <2>3 DEF MemDropListing, Answer
  <2> QED BY <1>1, <2>1, <2>2, <2>4, DesksWrittenAlike
<1>6. CASE Block
  <2> DEFINE row == store.at[Here]
             state == IF row.mine /\ row.rfq = "live" THEN "spam" ELSE row.rfq
             p == [row EXCEPT !.rfq = state]
             spammed == At(store, Here, p)
  <2>1. BothDesks(MemBlock(Here), SqlBlock(Here)) /\ gone' = gone
    BY <1>6 DEF Block
  <2>2. MemBlock(Here) = SqlBlock(Here)
    BY <1>1 DEF MemBlock, SqlBlock
  <2>3. /\ row \in PlaceRow /\ (~row.mine => Untraced(row))
        /\ Here \in gone => ~row.mine /\ ~row.alert
    BY HereRow
  <2>4. state \in RfqStates
    BY <2>3 DEF PlaceRow, RfqStates
  <2>5. MemBlock(Here).db = [spammed EXCEPT !.blocked = TRUE]
    BY <1>1 DEF MemBlock, Answer, At, Stores
  <2> HIDE DEF state
  <2>6. p \in PlaceRow
    BY <2>3, <2>4 DEF PlaceRow
  <2>7. (~p.mine => Untraced(p)) /\ (Here \in gone => ~p.mine /\ ~p.alert)
    BY <2>3 DEF PlaceRow, Untraced
  <2> HIDE DEF p
  <2>8. GoodDesk(spammed, gone)
    BY <1>1, <2>6, <2>7, PlaceRewritten
  <2> HIDE DEF spammed
  <2>9. GoodDesk([spammed EXCEPT !.blocked = TRUE], gone)
    BY <1>1, <2>8, RestRewritten
  <2>10. GoodDesk(MemBlock(Here).db, gone)
    BY <2>5, <2>9
  <2> QED BY <1>1, <2>1, <2>2, <2>10, DesksWrittenAlike
<1>7. CASE Unblock
  <2>1. BothDesks(MemUnblock, SqlUnblock) /\ gone' = gone
    BY <1>7 DEF Unblock
  <2>2. MemUnblock = SqlUnblock
    BY <1>1 DEF MemUnblock, SqlUnblock
  <2>3. GoodDesk([store EXCEPT !.blocked = FALSE], gone)
    BY <1>1, RestRewritten
  <2>4. GoodDesk(MemUnblock.db, gone)
    BY <2>3 DEF MemUnblock, Answer
  <2> QED BY <1>1, <2>1, <2>2, <2>4, DesksWrittenAlike
<1> QED BY <1>2, <1>3, <1>4, <1>5, <1>6, <1>7

\* deleteBuyerData leaves nothing of the mailbox in its marketplace and touches
\* no other.
LEMMA ErasureIsComplete ==
    ASSUME DeskInv, NEW v \in Verticals, DeleteBuyerData(v)
    PROVE  DeskInv'
<1> DEFINE p == store.at[v]
           q == IF p.mine THEN Scrubbed(p) ELSE p
           place == [q EXCEPT !.alert = FALSE]
           left == [f \in Reports |->
                      IF store.flag[f] # NoFlag /\ store.flag[f].at = v
                      THEN [store.flag[f] EXCEPT !.mine = FALSE] ELSE store.flag[f]]
           user == IF store.user = "buyer" THEN "none" ELSE store.user
           flagged == IF store.user = "buyer" THEN "none" ELSE store.onListing
           new == [store EXCEPT !.at[v] = place, !.flag = left, !.user = user, !.onListing = flagged]
<1>1. /\ store = base /\ GoodDesk(store, gone) /\ gone \in SUBSET Verticals /\ store \in Stores
      /\ OpenDedupe(store.flag) /\ OwnedTraces(store) /\ ErasedIn(store, gone)
  BY DEF DeskInv, GoodDesk
<1>2. BothDesks(MemErase(v), SqlErase(v)) /\ gone' = gone \cup {v}
  BY DEF DeleteBuyerData
<1>3. MemErase(v) = SqlErase(v)
  BY <1>1 DEF MemErase, SqlErase
<1>4. MemErase(v).db = new
  BY <1>1 DEF MemErase, Answer, Stores
<1>5. p \in PlaceRow /\ (~p.mine => Untraced(p))
  BY <1>1 DEF Stores, PlaceRow, OwnedTraces
<1>6. /\ place \in PlaceRow
      /\ ~place.mine /\ ~place.alert /\ Untraced(place)
  <2>1. CASE p.mine
    <3>1. Scrubbed(p) \in PlaceRow
      BY <1>5 DEF Scrubbed, PlaceRow, RfqStates, Trails
    <3>2. ~Scrubbed(p).mine /\ Untraced(Scrubbed(p))
      BY <1>5 DEF Scrubbed, PlaceRow, Untraced
    <3>3. q = Scrubbed(p)
      BY <2>1
    <3> HIDE DEF q
    <3> QED BY <3>1, <3>2, <3>3 DEF PlaceRow, Untraced
  <2>2. CASE ~p.mine
    <3>1. q = p
      BY <2>2
    <3> HIDE DEF q
    <3> QED BY <1>5, <2>2, <3>1 DEF PlaceRow, Untraced
  <2> QED BY <2>1, <2>2
<1> HIDE DEF place
<1>7. \A f \in Reports : store.flag[f] # NoFlag =>
        /\ store.flag[f] \in Flag
        /\ [store.flag[f] EXCEPT !.mine = FALSE] \in Flag
        /\ ~[store.flag[f] EXCEPT !.mine = FALSE].mine
        /\ [store.flag[f] EXCEPT !.mine = FALSE].at = store.flag[f].at
  <2>1. \A x \in Flag : /\ [x EXCEPT !.mine = FALSE] \in Flag
                        /\ [x EXCEPT !.mine = FALSE].mine = FALSE
                        /\ [x EXCEPT !.mine = FALSE].at = x.at
    BY DEF Flag
  <2>2. \A f \in Reports : store.flag[f] # NoFlag => store.flag[f] \in Flag
    BY <1>1 DEF Stores
  <2> QED BY <2>1, <2>2
<1>8. left \in [Reports -> Flag \cup {NoFlag}]
  BY <1>1, <1>7 DEF Stores
<1>9. \A f \in Reports : left[f] = store.flag[f] \/ ~left[f].mine
  BY <1>7
<1>10. \A f \in Reports : left[f] # NoFlag /\ left[f].at = v => ~left[f].mine
  BY <1>7
<1> HIDE DEF left
<1>11. user \in {"none", "buyer", "operator"} /\ flagged \in ListingFlags
  BY <1>1 DEF Stores, ListingFlags
<1> HIDE DEF user, flagged
<1>12. /\ new \in Stores /\ new.flag = left /\ new.at[v] = place
       /\ \A w \in Verticals \ {v} : new.at[w] = store.at[w]
  BY <1>1, <1>6, <1>8, <1>11 DEF Stores, PlaceRow
<1> HIDE DEF new
<1>13. OpenDedupe(new.flag)
  BY <1>1, <1>9, <1>12 DEF OpenDedupe
<1>14. OwnedTraces(new)
  BY <1>1, <1>6, <1>12 DEF OwnedTraces
<1>15. \A w \in gone' : ~Trace(new, w)
  <2> TAKE w \in gone'
  <2>1. CASE w = v
    BY <1>6, <1>10, <1>12, <2>1 DEF Trace, Untraced
  <2>2. CASE w # v
    <3>1. ~Trace(store, w) /\ new.at[w] = store.at[w]
      BY <1>1, <1>2, <1>12, <2>2 DEF ErasedIn
    <3> QED BY <1>9, <1>12, <3>1 DEF Trace
  <2> QED BY <2>1, <2>2
<1>16. \A w \in Verticals \ ({Here} \cup gone') : new.at[w] = Place(TRUE)
  BY <1>1, <1>2, <1>12 DEF ErasedIn
<1>17. GoodDesk(MemErase(v).db, gone')
  BY <1>4, <1>12, <1>13, <1>14, <1>15, <1>16 DEF GoodDesk, ErasedIn
<1> QED BY <1>1, <1>2, <1>3, <1>17, DesksWrittenAlike

LEMMA DeskCorrect == DeskInit /\ [][DeskNext]_deskVars => []DeskInv
<1>1. ASSUME DeskInit PROVE DeskInv
  <2>1. /\ store = Empty /\ base = Empty /\ heard /\ gone = {}
    BY <1>1 DEF DeskInit
  <2>2. Empty \in Stores
    BY DEF Empty, Place, Stores, RfqStates, Trails, ListingFlags
  <2>3. OwnedTraces(Empty) /\ OpenDedupe(Empty.flag) /\ ErasedIn(Empty, {})
    BY DEF Empty, Place, OwnedTraces, Untraced, OpenDedupe, ErasedIn
  <2> QED BY <2>1, <2>2, <2>3 DEF DeskInv, GoodDesk
<1>2. ASSUME DeskInv, [DeskNext]_deskVars PROVE DeskInv'
  <2>1. CASE UNCHANGED deskVars
    BY <1>2, <2>1 DEF deskVars, DeskInv, GoodDesk, OpenDedupe, OwnedTraces, ErasedIn, Untraced,
       Trace, Stores, Flag, NoFlag, Place
  <2>2. CASE DeskNext
    BY <1>2, <2>2, MailboxSteps, FilingsAgree, FlagSteps, AccountSteps, ErasureIsComplete
       DEF DeskNext
  <2> QED BY <1>2, <2>1, <2>2
<1> QED BY <1>1, <1>2, PTL

-----------------------------------------------------------------------------
(* One request, its matches and its quotes.                                *)

KeptStatuses == LiveM \cup {"closed", "spam", "expired"}
KeptTables == Tables({"none", "later", "due"}, KeptStatuses)
HeldTables == Tables({"none", "delayed", "pending"}, LiveS \cup {"closed", "spam"})

\* A row of memory as Postgres holds it: expired is folded into closed, and a
\* match whose delay runs is delayed until the sweep flips it.
Delivery(state) == CASE state = "later" -> "delayed" [] state = "due" -> "pending" [] OTHER -> state
Mirrored(m, s) ==
    /\ s.status = ToDb(m.status)
    /\ \A o \in Ops : s.match[o] = Delivery(m.match[o])
    /\ s.concierge = m.concierge /\ s.home = m.home /\ s.dismissed = m.dismissed
    /\ s.quote = m.quote /\ s.rounds = m.rounds /\ s.revs = m.revs

\* memory.ts keeps the old note when a counter brings none and drizzle.ts writes
\* null: the same, because a quote without a counter has no note.
NotesHaveCounters(db) ==
    \A o \in Ops : db.quote[o] # NoQuote /\ ~db.quote[o].countered => db.quote[o].note = Silent

TradeInv ==
    /\ replies
    /\ kept \in KeptTables /\ held \in HeldTables
    /\ Mirrored(kept, held)
    /\ NotesHaveCounters(kept)

LEMMA StatusesMirrored ==
    \A s \in KeptStatuses :
        /\ ToDb(s) \in LiveS \cup {"closed", "spam"}
        /\ ToDb(s) \in LiveS <=> s \in LiveM
        /\ ToDb(s) = "new" <=> s = "open"
        /\ ToDb(s) = "closed" <=> s \in {"closed", "expired"}
        /\ ToDb(s) = "spam" <=> s = "spam"
        /\ s \in {"matched", "quoted", "closed", "spam"} => ToDb(s) = s
BY DEF KeptStatuses, LiveM, LiveS, ToDb

LEMMA DeliveriesMirrored ==
    \A s \in {"none", "later", "due"} :
        /\ Delivery(s) \in {"none", "delayed", "pending"}
        /\ Delivery(s) = "none" <=> s = "none"
        /\ Delivery(s) = "delayed" <=> s = "later"
        /\ Delivery(s) = "pending" <=> s = "due"
BY DEF Delivery

\* What a reader of memory's row finds in Postgres' row.
LEMMA MirrorRead ==
    ASSUME TradeInv
    PROVE  /\ kept.status \in KeptStatuses /\ held.status = ToDb(kept.status)
           /\ held.concierge = kept.concierge /\ kept.concierge \in BOOLEAN
           /\ held.home = kept.home /\ kept.home \in Ops \cup {Nobody}
           /\ held.dismissed = kept.dismissed /\ kept.dismissed \in SUBSET Ops
           /\ held.quote = kept.quote /\ kept.quote \in [Ops -> Quote \cup {NoQuote}]
           /\ held.rounds = kept.rounds /\ kept.rounds \in [Ops -> Seq(Outcomes)]
           /\ held.revs = kept.revs /\ kept.revs \in [Ops -> Seq(0 .. MaxRevs)]
           /\ kept.match \in [Ops -> {"none", "later", "due"}]
           /\ HeldLive <=> KeptLive
           /\ \A o \in Ops : /\ SqlVisible(o) <=> MemVisible(o)
                             /\ held.match[o] = Delivery(kept.match[o])
<1>1. kept \in KeptTables /\ held \in HeldTables /\ Mirrored(kept, held)
  BY DEF TradeInv
<1>2. /\ kept.status \in KeptStatuses /\ kept.concierge \in BOOLEAN
      /\ kept.home \in Ops \cup {Nobody} /\ kept.dismissed \in SUBSET Ops
      /\ kept.quote \in [Ops -> Quote \cup {NoQuote}] /\ kept.rounds \in [Ops -> Seq(Outcomes)]
      /\ kept.revs \in [Ops -> Seq(0 .. MaxRevs)] /\ kept.match \in [Ops -> {"none", "later", "due"}]
  BY <1>1 DEF KeptTables, Tables
<1>3. /\ held.status = ToDb(kept.status) /\ held.concierge = kept.concierge
      /\ held.home = kept.home /\ held.dismissed = kept.dismissed /\ held.quote = kept.quote
      /\ held.rounds = kept.rounds /\ held.revs = kept.revs
      /\ \A o \in Ops : held.match[o] = Delivery(kept.match[o])
  BY <1>1 DEF Mirrored
<1>4. HeldLive <=> KeptLive
  BY <1>2, <1>3, StatusesMirrored DEF HeldLive, KeptLive
<1>5. \A o \in Ops : SqlVisible(o) <=> MemVisible(o)
  BY <1>2, <1>3, DeliveriesMirrored DEF SqlVisible, MemVisible
<1> QED BY <1>2, <1>3, <1>4, <1>5

LEMMA TradeTyped == ASSUME TradeInv PROVE TradeTypeOK
BY DEF TradeInv, TradeTypeOK, KeptTables, HeldTables, KeptStatuses

\* The views of the inbox compare what the coupling fixes.
LEMMA ViewsAgree == ASSUME TradeInv PROVE InboxesAgree
<1>1. ASSUME NEW o \in Ops
      PROVE  /\ held.home = kept.home /\ held.dismissed = kept.dismissed
             /\ held.quote = kept.quote /\ held.rounds = kept.rounds /\ held.revs = kept.revs
             /\ MemVisible(o) \in BOOLEAN /\ SqlVisible(o) \in BOOLEAN
             /\ SqlVisible(o) <=> MemVisible(o)
             /\ held.status = "closed" <=> kept.status \in {"closed", "expired"}
             /\ held.status = "spam" <=> kept.status = "spam"
             /\ held.match[o] = "delayed" <=> kept.match[o] = "later"
  BY MirrorRead, StatusesMirrored, DeliveriesMirrored DEF MemVisible, SqlVisible
<1>2. ASSUME NEW o \in Ops
      PROVE  MemViews(o) = SqlListViews(o) /\ SqlCountViews(o) = SqlListViews(o)
  <2> DEFINE viewNames == {"inbox", "dismissed", "needsQuote", "answered", "countered", "lost"}
  <2>1. ASSUME NEW v \in viewNames
        PROVE  v \in MemViews(o) <=> v \in SqlListViews(o)
    <3>1. CASE v \in {"inbox", "dismissed"}
      BY <1>1, <1>2, <3>1 DEF MemViews, SqlListViews
    <3>2. CASE v \in {"needsQuote", "answered", "countered"}
      BY <1>1, <1>2, <3>2 DEF MemViews, SqlListViews
    <3>3. CASE v = "lost"
      BY <1>1, <1>2, <3>3 DEF MemViews, SqlListViews, HasQuote
    <3> QED BY <3>1, <3>2, <3>3
  <2>2. ASSUME NEW v \in viewNames
        PROVE  v \in SqlCountViews(o) <=> v \in SqlListViews(o)
    BY <1>1, <1>2 DEF SqlCountViews, SqlListViews
  <2>3. MemViews(o) = SqlListViews(o)
    BY <2>1, ZenonT(60) DEF MemViews, SqlListViews
  <2>4. SqlCountViews(o) = SqlListViews(o)
    BY <2>2, ZenonT(60) DEF SqlCountViews, SqlListViews
  <2> QED BY <2>3, <2>4
<1>3. ASSUME NEW o \in Ops
      PROVE  MemPending(o) = SqlPending(o) /\ MemHears(o) = SqlHears(o)
  BY <1>1, <1>3 DEF MemPending, SqlPending, MemHears, SqlHears
<1>4. ASSUME NEW o \in Ops PROVE SameTrade(o)
  BY <1>1, <1>4 DEF SameTrade
<1> QED BY <1>2, <1>3, <1>4 DEF InboxesAgree, TradeInv

\* A call that answers alike and leaves rows that mirror each other.
LEMMA TradesMirrored ==
    ASSUME NEW m, NEW s, BothTrade(m, s), m.answer = s.answer,
           m.db \in KeptTables, s.db \in HeldTables, Mirrored(m.db, s.db),
           NotesHaveCounters(m.db)
    PROVE  TradeInv'
<1>1. kept' = m.db /\ held' = s.db /\ replies'
  BY DEF BothTrade
<1>2. Mirrored(kept', held') /\ NotesHaveCounters(kept')
  BY <1>1
<1>3. kept' \in KeptTables /\ held' \in HeldTables
  BY <1>1
<1> QED BY <1>1, <1>2, <1>3 DEF TradeInv, NotesHaveCounters, KeptTables, HeldTables, Mirrored, Tables

LEMMA BothDid ==
    ASSUME NEW m, NEW s, NEW k, NEW h, BothTrade(m, s), m = Did(k), s = Did(h)
    PROVE  kept' = k /\ held' = h /\ replies'
BY DEF BothTrade, Did

LEMMA TradeRefused ==
    ASSUME TradeInv, BothTrade(Refused(kept), Refused(held))
    PROVE  TradeInv'
BY TradesMirrored DEF TradeInv, Refused

\* A call that leaves the quotes as they are.
LEMMA StillMirrored ==
    ASSUME TradeInv, kept' \in KeptTables, held' \in HeldTables, Mirrored(kept', held'),
           kept'.quote = kept.quote, replies'
    PROVE  TradeInv'
<1>1. NotesHaveCounters(kept')
  BY DEF TradeInv, NotesHaveCounters
<1> QED BY <1>1 DEF TradeInv, NotesHaveCounters, KeptTables, HeldTables, Mirrored, Tables

LEMMA MatchSteps ==
    ASSUME TradeInv,
           \/ \E ops \in SUBSET Ops \ {{}}, at \in {"due", "later"} : CreateRfqMatches(ops, at)
           \/ ExpediteRfq \/ DelayOver
    PROVE  TradeInv'
<1>0. kept \in KeptTables /\ held \in HeldTables /\ Mirrored(kept, held)
  BY DEF TradeInv
<1>1. ASSUME NEW ops \in SUBSET Ops, NEW at \in {"due", "later"}, CreateRfqMatches(ops, at)
      PROVE  TradeInv'
  <2> DEFINE match == [o \in Ops |-> IF o \in ops /\ kept.match[o] = "none" THEN at ELSE kept.match[o]]
             status == IF kept.status = "open" THEN "matched" ELSE kept.status
             sqlMatch == [o \in Ops |-> IF o \in ops /\ held.match[o] = "none"
                                        THEN (IF at = "later" THEN "delayed" ELSE "pending")
                                        ELSE held.match[o]]
             sqlStatus == IF held.status = "new" THEN "matched" ELSE held.status
  <2>1. match \in [Ops -> {"none", "later", "due"}] /\ status \in KeptStatuses
    BY MirrorRead DEF KeptStatuses, LiveM
  <2>2. \A o \in Ops : sqlMatch[o] = Delivery(match[o])
    BY MirrorRead, DeliveriesMirrored DEF Delivery
  <2>3. sqlMatch \in [Ops -> {"none", "delayed", "pending"}]
    BY <2>1, <2>2, DeliveriesMirrored
  <2>4. sqlStatus = ToDb(status)
    BY MirrorRead, StatusesMirrored, SMTT(60) DEF ToDb
  <2>5. /\ kept' = [kept EXCEPT !.match = match, !.status = status]
        /\ held' = [held EXCEPT !.match = sqlMatch, !.status = sqlStatus]
        /\ replies'
    BY <1>1 DEF CreateRfqMatches, BothTrade, MemMatches, SqlMatches, Did
  <2> HIDE DEF match, status, sqlMatch, sqlStatus
  <2>6. kept' \in KeptTables /\ kept'.quote = kept.quote
    BY <1>0, <2>1, <2>5 DEF KeptTables, Tables
  <2>7. sqlStatus \in LiveS \cup {"closed", "spam"}
    BY <2>1, <2>4, StatusesMirrored
  <2>8. held' \in HeldTables
    BY <1>0, <2>3, <2>5, <2>7 DEF HeldTables, Tables
  <2>9. Mirrored(kept', held')
    BY <1>0, <2>2, <2>4, <2>5 DEF KeptTables, HeldTables, Tables, Mirrored
  <2> QED BY <2>5, <2>6, <2>8, <2>9, StillMirrored
<1> DEFINE due == [o \in Ops |-> IF kept.match[o] = "later" THEN "due" ELSE kept.match[o]]
           pending == [o \in Ops |-> IF held.match[o] = "delayed" THEN "pending" ELSE held.match[o]]
<1>2. due \in [Ops -> {"none", "later", "due"}]
  BY MirrorRead
<1>3. \A o \in Ops : pending[o] = Delivery(due[o])
  BY MirrorRead, DeliveriesMirrored DEF Delivery
<1>4. pending \in [Ops -> {"none", "delayed", "pending"}]
  BY <1>2, <1>3, DeliveriesMirrored
<1>5. ASSUME NEW c \in BOOLEAN, replies',
             kept' = [kept EXCEPT !.concierge = c, !.match = due],
             held' = [held EXCEPT !.concierge = c, !.match = pending]
      PROVE  TradeInv'
  <2> HIDE DEF due, pending
  <2>1. kept' \in KeptTables /\ kept'.quote = kept.quote
    BY <1>0, <1>2, <1>5 DEF KeptTables, Tables
  <2>2. held' \in HeldTables
    BY <1>0, <1>4, <1>5 DEF HeldTables, Tables
  <2>3. Mirrored(kept', held')
    BY <1>0, <1>3, <1>5 DEF KeptTables, HeldTables, Tables, Mirrored
  <2> QED BY <1>5, <2>1, <2>2, <2>3, StillMirrored
<1>6. CASE ExpediteRfq
  <2>1. BothTrade(MemExpedite, SqlExpedite)
    BY <1>6 DEF ExpediteRfq
  <2>2. CASE kept.concierge \/ ~KeptLive
    <3>1. MemExpedite = Refused(kept) /\ SqlExpedite = Refused(held)
      BY <2>2, MirrorRead DEF MemExpedite, SqlExpedite
    <3> QED BY <2>1, <3>1, TradeRefused
  <2>3. CASE ~(kept.concierge \/ ~KeptLive)
    <3>1. /\ MemExpedite = Did([kept EXCEPT !.concierge = TRUE, !.match = due])
          /\ SqlExpedite = Did([held EXCEPT !.concierge = TRUE, !.match = pending])
      BY <2>3, MirrorRead DEF MemExpedite, SqlExpedite
    <3> HIDE DEF due, pending
    <3>2. /\ kept' = [kept EXCEPT !.concierge = TRUE, !.match = due]
          /\ held' = [held EXCEPT !.concierge = TRUE, !.match = pending]
          /\ replies'
      BY <2>1, <3>1 DEF BothTrade, Did
    <3> QED BY <1>5, <3>2
  <2> QED BY <2>2, <2>3
<1>7. CASE DelayOver
  <2>1. /\ kept' = [kept EXCEPT !.match = due] /\ held' = [held EXCEPT !.match = pending]
        /\ replies'
    BY <1>7 DEF DelayOver, BothTrade, Did
  <2> HIDE DEF due, pending
  <2> DEFINE c == kept.concierge
  <2>2. /\ kept' = [kept EXCEPT !.concierge = c, !.match = due]
        /\ held' = [held EXCEPT !.concierge = c, !.match = pending]
        /\ c \in BOOLEAN
    BY <1>0, <2>1, MirrorRead DEF KeptTables, HeldTables, Tables
  <2> HIDE DEF c
  <2> QED BY <1>5, <2>1, <2>2
<1> QED BY <1>1, <1>6, <1>7

\* The inbox's dismissals, the end of the listing, the close and the reopen.
LEMMA RequestSteps ==
    ASSUME TradeInv,
           \/ \E o \in Ops : DismissRfq(o) \/ UndismissRfq(o)
           \/ \E s \in {"closed", "spam"} : CloseTrade(s)
           \/ ReopenTrade \/ DropListing
    PROVE  TradeInv'
<1>1. kept \in KeptTables /\ held \in HeldTables /\ Mirrored(kept, held)
  BY DEF TradeInv
<1>2. ASSUME NEW d \in SUBSET Ops, NEW e \in SUBSET Ops, d = e, replies',
             kept' = [kept EXCEPT !.dismissed = d], held' = [held EXCEPT !.dismissed = e]
      PROVE  TradeInv'
  <2>1. kept' \in KeptTables /\ held' \in HeldTables /\ kept'.quote = kept.quote
    BY <1>1, <1>2 DEF KeptTables, HeldTables, Tables
  <2>2. Mirrored(kept', held')
    BY <1>1, <1>2 DEF KeptTables, HeldTables, Tables, Mirrored
  <2> QED BY <1>2, <2>1, <2>2, StillMirrored
<1>3. ASSUME NEW s \in KeptStatuses, replies',
             kept' = [kept EXCEPT !.status = s], held' = [held EXCEPT !.status = ToDb(s)]
      PROVE  TradeInv'
  <2>1. kept' \in KeptTables /\ kept'.quote = kept.quote
    BY <1>1, <1>3 DEF KeptTables, Tables
  <2>2. held' \in HeldTables
    BY <1>1, <1>3, StatusesMirrored DEF HeldTables, Tables
  <2>3. Mirrored(kept', held')
    BY <1>1, <1>3 DEF KeptTables, HeldTables, Tables, Mirrored
  <2> QED BY <1>3, <2>1, <2>2, <2>3, StillMirrored
<1>4. ASSUME NEW o \in Ops, DismissRfq(o) PROVE TradeInv'
  <2>1. BothTrade(MemDismiss(o), SqlDismiss(o))
    BY <1>4 DEF DismissRfq
  <2>2. CASE kept.home = o \/ MemVisible(o)
    <3> DEFINE d == kept.dismissed \cup {o}
               e == held.dismissed \cup {o}
    <3>1. d = e /\ d \in SUBSET Ops /\ e \in SUBSET Ops
      BY MirrorRead
    <3>2. BothTrade(Did([kept EXCEPT !.dismissed = d]), Did([held EXCEPT !.dismissed = e]))
      BY <2>1, <2>2, MirrorRead DEF MemDismiss, SqlDismiss
    <3> HIDE DEF d, e
    <3>3. kept' = [kept EXCEPT !.dismissed = d] /\ held' = [held EXCEPT !.dismissed = e]
      BY <3>2 DEF BothTrade, Did
    <3>4. replies'
      BY <3>2 DEF BothTrade, Did
    <3> QED BY <1>2, <3>1, <3>3, <3>4
  <2>3. CASE ~(kept.home = o \/ MemVisible(o))
    <3>1. MemDismiss(o) = Refused(kept) /\ SqlDismiss(o) = Refused(held)
      BY <2>3, MirrorRead DEF MemDismiss, SqlDismiss
    <3> QED BY <2>1, <3>1, TradeRefused
  <2> QED BY <2>2, <2>3
<1>5. ASSUME NEW o \in Ops, UndismissRfq(o) PROVE TradeInv'
  <2>1. BothTrade(MemUndismiss(o), SqlUndismiss(o))
    BY <1>5 DEF UndismissRfq
  <2>2. CASE o \in kept.dismissed
    <3> DEFINE d == kept.dismissed \ {o}
               e == held.dismissed \ {o}
    <3>1. d = e /\ d \in SUBSET Ops /\ e \in SUBSET Ops
      BY MirrorRead
    <3>2. BothTrade(Did([kept EXCEPT !.dismissed = d]), Did([held EXCEPT !.dismissed = e]))
      BY <2>1, <2>2, MirrorRead DEF MemUndismiss, SqlUndismiss
    <3> HIDE DEF d, e
    <3>3. kept' = [kept EXCEPT !.dismissed = d] /\ held' = [held EXCEPT !.dismissed = e]
      BY <3>2 DEF BothTrade, Did
    <3>4. replies'
      BY <3>2 DEF BothTrade, Did
    <3> QED BY <1>2, <3>1, <3>3, <3>4
  <2>3. CASE o \notin kept.dismissed
    <3>1. MemUndismiss(o) = Refused(kept) /\ SqlUndismiss(o) = Refused(held)
      BY <2>3, MirrorRead DEF MemUndismiss, SqlUndismiss
    <3> QED BY <2>1, <3>1, TradeRefused
  <2> QED BY <2>2, <2>3
<1>6. ASSUME NEW s \in {"closed", "spam"}, CloseTrade(s) PROVE TradeInv'
  <2>1. /\ kept' = [kept EXCEPT !.status = s] /\ held' = [held EXCEPT !.status = s] /\ replies'
    BY <1>6 DEF CloseTrade, BothTrade, Did
  <2>2. s \in KeptStatuses /\ ToDb(s) = s
    BY StatusesMirrored DEF KeptStatuses
  <2> QED BY <1>3, <2>1, <2>2
<1>7. CASE ReopenTrade
  <2>1. /\ kept' = [kept EXCEPT !.status = "open"] /\ held' = [held EXCEPT !.status = "new"]
        /\ replies'
    BY <1>7 DEF ReopenTrade, BothTrade, Did
  <2>2. "open" \in KeptStatuses /\ ToDb("open") = "new"
    BY StatusesMirrored DEF KeptStatuses, LiveM
  <2> QED BY <1>3, <2>1, <2>2
<1>8. CASE DropListing
  <2>1. /\ kept' = [kept EXCEPT !.home = Nobody] /\ held' = [held EXCEPT !.home = Nobody]
        /\ replies'
    BY <1>8 DEF DropListing, BothTrade, Did
  <2>2. kept' \in KeptTables /\ held' \in HeldTables /\ kept'.quote = kept.quote
    BY <1>1, <2>1 DEF KeptTables, HeldTables, Tables
  <2>3. Mirrored(kept', held')
    BY <1>1, <2>1 DEF KeptTables, HeldTables, Tables, Mirrored
  <2> QED BY <2>1, <2>2, <2>3, StillMirrored
<1> QED BY <1>4, <1>5, <1>6, <1>7, <1>8

LEMMA RoundsTyped ==
    ASSUME NEW rounds_ \in Seq(Outcomes), NEW ended \in Outcomes
    PROVE  Resolved(rounds_, ended) \in Seq(Outcomes) /\ <<"open">> \o rounds_ \in Seq(Outcomes)
<1>1. Resolved(rounds_, ended) \in Seq(Outcomes)
  BY DEF Resolved
<1>2. <<"open">> \in Seq(Outcomes)
  BY DEF Outcomes
<1> QED BY <1>1, <1>2

LEMMA QuoteRowsTyped ==
    ASSUME NEW q \in Quote
    PROVE  /\ q # NoQuote
           /\ Uncountered(q) \in Quote
           /\ \A b \in BOOLEAN, n \in Texts : [q EXCEPT !.countered = b, !.note = n] \in Quote
           /\ [q EXCEPT !.seen = TRUE] \in Quote
           /\ \A s \in {"sent", "accepted", "declined", "withdrawn"}, n \in Texts :
                [q EXCEPT !.status = s, !.reason = n] \in Quote
           /\ q.terms < MaxRevs => Revised(q) \in Quote
<1>1. q # NoQuote
  BY DEF Quote, NoQuote
<1>2. Uncountered(q) \in Quote
  BY DEF Quote, Uncountered, Texts
<1>3. \A b \in BOOLEAN, n \in Texts : [q EXCEPT !.countered = b, !.note = n] \in Quote
  BY DEF Quote, Texts
<1>4. [q EXCEPT !.seen = TRUE] \in Quote
  BY DEF Quote
<1>5. \A s \in {"sent", "accepted", "declined", "withdrawn"}, n \in Texts :
        [q EXCEPT !.status = s, !.reason = n] \in Quote
  BY DEF Quote
<1>6. ASSUME q.terms < MaxRevs PROVE Revised(q) \in Quote
  <2>1. q.terms \in 0 .. MaxRevs /\ MaxRevs \in Nat
    BY TradeAssumption DEF Quote
  <2>2. q.terms + 1 \in 0 .. MaxRevs
    BY <1>6, <2>1
  <2>3. \A x \in Quote, t \in 0 .. MaxRevs : [x EXCEPT !.seen = FALSE, !.terms = t] \in Quote
    BY DEF Quote
  <2>4. Uncountered(q).terms = q.terms
    BY DEF Uncountered, Quote
  <2> QED BY <1>2, <2>2, <2>3, <2>4 DEF Revised
<1> QED BY <1>1, <1>2, <1>3, <1>4, <1>5, <1>6

\* Only a counter writes a note, and an answered counter takes its note along.
LEMMA QuoteNotes ==
    ASSUME NEW q \in Quote
    PROVE  /\ [q EXCEPT !.seen = TRUE].countered = q.countered
           /\ [q EXCEPT !.seen = TRUE].note = q.note
           /\ \A s, n : /\ [q EXCEPT !.status = s, !.reason = n].countered = q.countered
                        /\ [q EXCEPT !.status = s, !.reason = n].note = q.note
           /\ \A n : [q EXCEPT !.countered = TRUE, !.note = n].countered = TRUE
           /\ Uncountered(q).note = Silent /\ Revised(q).note = Silent
BY DEF Quote, Uncountered, Revised

\* One quote of both repositories changes the same way.
LEMMA QuoteMirrored ==
    ASSUME TradeInv, NEW o \in Ops, NEW q \in Quote, ~q.countered => q.note = Silent,
           NEW r \in Seq(Outcomes), NEW v \in Seq(0 .. MaxRevs), NEW st \in KeptStatuses,
           replies',
           /\ kept'.status = st /\ held'.status = ToDb(st)
           /\ kept'.quote = [kept.quote EXCEPT ![o] = q]
           /\ kept'.rounds = [kept.rounds EXCEPT ![o] = r]
           /\ kept'.revs = [kept.revs EXCEPT ![o] = v],
           /\ kept' = [kept EXCEPT !.status = kept'.status, !.quote = kept'.quote,
                                   !.rounds = kept'.rounds, !.revs = kept'.revs],
           /\ held'.quote = [held.quote EXCEPT ![o] = q]
           /\ held'.rounds = [held.rounds EXCEPT ![o] = r]
           /\ held'.revs = [held.revs EXCEPT ![o] = v],
           /\ held' = [held EXCEPT !.status = held'.status, !.quote = held'.quote,
                                   !.rounds = held'.rounds, !.revs = held'.revs]
    PROVE  TradeInv'
<1>1. /\ kept \in KeptTables /\ held \in HeldTables /\ Mirrored(kept, held)
      /\ NotesHaveCounters(kept)
  BY DEF TradeInv
<1>2. /\ kept'.quote \in [Ops -> Quote \cup {NoQuote}]
      /\ kept'.rounds \in [Ops -> Seq(Outcomes)] /\ kept'.revs \in [Ops -> Seq(0 .. MaxRevs)]
  BY MirrorRead
<1>3. held'.quote = kept'.quote /\ held'.rounds = kept'.rounds /\ held'.revs = kept'.revs
  BY <1>1 DEF Mirrored
<1>4. kept' \in KeptTables
  BY <1>1, <1>2 DEF KeptTables, Tables
<1>5. held'.status \in LiveS \cup {"closed", "spam"}
  BY StatusesMirrored
<1>6. held' \in HeldTables
  BY <1>3, <1>1, <1>2, <1>5 DEF HeldTables, Tables
<1>7. Mirrored(kept', held')
  <2>1. /\ kept'.match = kept.match /\ kept'.concierge = kept.concierge
        /\ kept'.home = kept.home /\ kept'.dismissed = kept.dismissed
    BY <1>1 DEF KeptTables, Tables
  <2>2. /\ held'.match = held.match /\ held'.concierge = held.concierge
        /\ held'.home = held.home /\ held'.dismissed = held.dismissed
    BY <1>1 DEF HeldTables, Tables
  <2> QED BY <1>3, <1>1, <2>1, <2>2 DEF Mirrored
<1>8. NotesHaveCounters(kept')
  BY <1>1, MirrorRead DEF NotesHaveCounters
<1> QED BY <1>4, <1>6, <1>7, <1>8
        DEF TradeInv, NotesHaveCounters, KeptTables, HeldTables, Mirrored, Tables

LEMMA QuoteSteps ==
    ASSUME TradeInv, NEW o \in Ops,
           \/ CreateQuote(o) \/ MarkQuotesBuyerSeen(o)
           \/ \E n \in Texts : CounterQuote(o, n)
           \/ \E ended \in {"withdrawn", "declined"} : ClearQuoteCounter(o, ended)
           \/ \E ended \in {"answered", "accepted"} : ReviseQuote(o, ended)
           \/ \E s \in {"accepted", "declined", "withdrawn"}, n \in Texts :
                SetQuoteStatus(o, s, "sent", n)
           \/ \E s \in {"sent", "declined"} : SetQuoteStatus(o, s, "accepted", Silent)
    PROVE  TradeInv'
<1> DEFINE row == kept.quote[o]
           rounds_ == kept.rounds[o]
           revs_ == kept.revs[o]
           status == kept.status
<1>1. /\ kept \in KeptTables /\ held \in HeldTables /\ Mirrored(kept, held)
      /\ NotesHaveCounters(kept)
  BY DEF TradeInv
<1>2. /\ kept.quote \in [Ops -> Quote \cup {NoQuote}] /\ row \in Quote \cup {NoQuote}
      /\ rounds_ \in Seq(Outcomes) /\ revs_ \in Seq(0 .. MaxRevs) /\ status \in KeptStatuses
      /\ kept.rounds = [kept.rounds EXCEPT ![o] = rounds_]
      /\ kept.revs = [kept.revs EXCEPT ![o] = revs_]
      /\ held.quote = kept.quote /\ held.rounds = kept.rounds /\ held.revs = kept.revs
      /\ held.status = ToDb(status)
  BY MirrorRead
<1>3. /\ HasQuote(o) <=> row # NoQuote
      /\ row # NoQuote => row \in Quote /\ (~row.countered => row.note = Silent)
  BY <1>1, <1>2 DEF HasQuote, NotesHaveCounters
<1>4. Silent \in Texts
  BY DEF Texts
<1>5. CASE CreateQuote(o)
  <2> DEFINE now_ == IF KeptLive THEN "quoted" ELSE kept.status
             then == IF HeldLive THEN "quoted" ELSE held.status
  <2>1. now_ \in KeptStatuses /\ then = ToDb(now_)
    BY <1>2, MirrorRead, StatusesMirrored DEF KeptStatuses, LiveM
  <2>2. BothTrade(Did([kept EXCEPT !.quote[o] = Fresh, !.status = now_]),
                  Did([held EXCEPT !.quote[o] = Fresh, !.status = then]))
    BY <1>5 DEF CreateQuote, MemCreateQuote, SqlCreateQuote
  <2> HIDE DEF now_, then
  <2>3. /\ kept' = [kept EXCEPT !.quote[o] = Fresh, !.status = now_]
        /\ held' = [held EXCEPT !.quote[o] = Fresh, !.status = then]
    BY <2>2 DEF BothTrade, Did
  <2>4. replies'
    BY <2>2 DEF BothTrade, Did
  <2>5. Fresh \in Quote /\ Fresh.note = Silent
    BY <1>4, TradeAssumption DEF Fresh, Quote
  <2>6. /\ kept'.status = now_ /\ kept'.quote = [kept.quote EXCEPT ![o] = Fresh]
        /\ kept'.rounds = kept.rounds /\ kept'.revs = kept.revs
        /\ kept' = [kept EXCEPT !.status = kept'.status, !.quote = kept'.quote,
                                !.rounds = kept'.rounds, !.revs = kept'.revs]
    BY <1>1, <2>3 DEF KeptTables, Tables
  <2>7. /\ held'.status = ToDb(now_) /\ held'.quote = [held.quote EXCEPT ![o] = Fresh]
        /\ held'.rounds = held.rounds /\ held'.revs = held.revs
        /\ held' = [held EXCEPT !.status = held'.status, !.quote = held'.quote,
                                !.rounds = held'.rounds, !.revs = held'.revs]
    BY <1>1, <2>1, <2>3 DEF HeldTables, Tables
  <2> HIDE DEF rounds_, revs_
  <2> QED BY <1>2, <2>1, <2>4, <2>5, <2>6, <2>7, QuoteMirrored
<1>6. ASSUME NEW q \in Quote, ~q.countered => q.note = Silent,
             NEW r \in Seq(Outcomes), NEW v \in Seq(0 .. MaxRevs), replies',
             kept' = [kept EXCEPT !.quote[o] = q, !.rounds[o] = r, !.revs[o] = v],
             held' = [held EXCEPT !.quote[o] = q, !.rounds[o] = r, !.revs[o] = v]
      PROVE  TradeInv'
  <2>1. /\ kept'.status = status /\ kept'.quote = [kept.quote EXCEPT ![o] = q]
        /\ kept'.rounds = [kept.rounds EXCEPT ![o] = r]
        /\ kept'.revs = [kept.revs EXCEPT ![o] = v]
        /\ kept' = [kept EXCEPT !.status = kept'.status, !.quote = kept'.quote,
                                !.rounds = kept'.rounds, !.revs = kept'.revs]
    BY <1>1, <1>6 DEF KeptTables, Tables
  <2>2. /\ held'.status = held.status /\ held'.quote = [held.quote EXCEPT ![o] = q]
        /\ held'.rounds = [held.rounds EXCEPT ![o] = r]
        /\ held'.revs = [held.revs EXCEPT ![o] = v]
        /\ held' = [held EXCEPT !.status = held'.status, !.quote = held'.quote,
                                !.rounds = held'.rounds, !.revs = held'.revs]
    BY <1>1, <1>6 DEF HeldTables, Tables
  <2>3. held'.status = ToDb(status) /\ status \in KeptStatuses
    BY <1>2, <2>2
  <2> HIDE DEF rounds_, revs_, row, status
  <2> QED BY <1>6, <2>1, <2>2, <2>3, QuoteMirrored
<1>7. ASSUME NEW q \in Quote, ~q.countered => q.note = Silent,
             NEW r \in Seq(Outcomes), replies',
             kept' = [kept EXCEPT !.quote[o] = q, !.rounds[o] = r],
             held' = [held EXCEPT !.quote[o] = q, !.rounds[o] = r]
      PROVE  TradeInv'
  <2>1. kept' = [kept EXCEPT !.quote[o] = q, !.rounds[o] = r, !.revs[o] = revs_]
    BY <1>1, <1>7 DEF KeptTables, Tables
  <2>2. held' = [held EXCEPT !.quote[o] = q, !.rounds[o] = r, !.revs[o] = held.revs[o]]
    BY <1>1, <1>7 DEF HeldTables, Tables
  <2>3. held' = [held EXCEPT !.quote[o] = q, !.rounds[o] = r, !.revs[o] = revs_]
    BY <1>2, <2>2
  <2> HIDE DEF row, rounds_, status, revs_
  <2> QED BY <1>2, <1>6, <1>7, <2>1, <2>3, ZenonT(60)
<1>8. CASE MarkQuotesBuyerSeen(o)
  <2> DEFINE q == [row EXCEPT !.seen = TRUE]
  <2>1. BothTrade(Did([kept EXCEPT !.quote[o].seen = TRUE]), Did([held EXCEPT !.quote[o].seen = TRUE]))
    BY <1>8 DEF MarkQuotesBuyerSeen, MemSeen, SqlSeen
  <2>2. row # NoQuote
    BY <1>3, <1>8 DEF MarkQuotesBuyerSeen
  <2>3. q \in Quote /\ (~q.countered => q.note = Silent)
    BY <1>3, <2>2, QuoteRowsTyped, QuoteNotes
  <2>4. replies'
    BY <2>1 DEF BothTrade, Did
  <2>5. kept' = [kept EXCEPT !.quote[o] = q, !.rounds[o] = kept.rounds[o]]
    <3>1. kept' = [kept EXCEPT !.quote[o].seen = TRUE]
      BY <2>1 DEF BothTrade, Did
    <3> QED BY <1>1, <3>1 DEF KeptTables, Tables
  <2>6. held' = [held EXCEPT !.quote[o] = q, !.rounds[o] = held.rounds[o]]
    <3>1. held' = [held EXCEPT !.quote[o].seen = TRUE]
      BY <2>1 DEF BothTrade, Did
    <3>2. held' = [held EXCEPT !.quote[o] = [held.quote[o] EXCEPT !.seen = TRUE],
                               !.rounds[o] = held.rounds[o]]
      BY <1>1, <3>1 DEF HeldTables, Tables
    <3> QED BY <1>2, <3>2
  <2>7. held.rounds[o] = rounds_
    BY <1>2
  <2> HIDE DEF q, row, revs_, status
  <2> QED BY <1>2, <1>7, <2>3, <2>4, <2>5, <2>6, <2>7
<1>9. ASSUME NEW n \in Texts, CounterQuote(o, n) PROVE TradeInv'
  <2>1. BothTrade(MemCounter(o, n), SqlCounter(o, n)) /\ row \in Quote
    BY <1>3, <1>9 DEF CounterQuote
  <2>2. CASE row.status # "sent" \/ row.countered
    <3>1. MemCounter(o, n) = Refused(kept) /\ SqlCounter(o, n) = Refused(held)
      BY <1>2, <2>2 DEF MemCounter, SqlCounter
    <3> QED BY <2>1, <3>1, TradeRefused
  <2>3. CASE ~(row.status # "sent" \/ row.countered)
    <3> DEFINE q == [row EXCEPT !.countered = TRUE, !.note = n]
               r == <<"open">> \o rounds_
               k == [kept EXCEPT !.quote[o].countered = TRUE,
                                 !.quote[o].note = IF n = Silent THEN @ ELSE n,
                                 !.rounds[o] = <<"open">> \o @]
               h == [held EXCEPT !.quote[o].countered = TRUE, !.quote[o].note = n,
                                 !.rounds[o] = <<"open">> \o @]
    <3>1. row.note = Silent
      BY <1>3, <2>1, <2>3, QuoteRowsTyped
    <3>2. MemCounter(o, n) = Did(k)
      BY <2>3, Zenon DEF MemCounter
    <3>3. SqlCounter(o, n) = Did(h)
      <4>1. ~(held.quote[o].status # "sent" \/ held.quote[o].countered)
        BY <1>2, <2>3
      <4> QED BY <4>1, Zenon DEF SqlCounter
    <3>4. q \in Quote
      <4>1. \A b \in BOOLEAN, x \in Texts : [row EXCEPT !.countered = b, !.note = x] \in Quote
        BY <2>1, QuoteRowsTyped
      <4> QED BY <4>1
    <3>5. q.countered = TRUE /\ r \in Seq(Outcomes)
      <4>1. q.countered = TRUE
        BY <2>1, QuoteNotes
      <4>2. "open" \in Outcomes
        BY DEF Outcomes
      <4> QED BY <1>2, <4>1, <4>2, RoundsTyped
    <3>6. k = [kept EXCEPT !.quote[o] = q, !.rounds[o] = r]
      BY <1>1, <2>1, <3>1 DEF KeptTables, Tables, Quote
    <3>7. h = [held EXCEPT !.quote[o] = q, !.rounds[o] = r]
      <4>1. h = [held EXCEPT !.quote[o] = [held.quote[o] EXCEPT !.countered = TRUE, !.note = n],
                             !.rounds[o] = <<"open">> \o held.rounds[o]]
        BY <1>1, <2>1 DEF HeldTables, Tables
      <4> HIDE DEF h
      <4> QED BY <1>2, <4>1
    <3> HIDE DEF k, h
    <3>8. kept' = k /\ held' = h /\ replies'
      BY <2>1, <3>2, <3>3, BothDid
    <3> HIDE DEF q, r, row, revs_, rounds_, status
    <3> QED BY <1>7, <3>4, <3>5, <3>6, <3>7, <3>8
  <2> QED BY <2>2, <2>3
<1>10. ASSUME NEW ended \in {"withdrawn", "declined"}, ClearQuoteCounter(o, ended)
       PROVE  TradeInv'
  <2>1. BothTrade(MemClear(o, ended), SqlClear(o, ended)) /\ row \in Quote
    BY <1>3, <1>10 DEF ClearQuoteCounter
  <2>2. CASE row.status # "sent" \/ ~row.countered
    <3>1. MemClear(o, ended) = Refused(kept) /\ SqlClear(o, ended) = Refused(held)
      BY <1>2, <2>2 DEF MemClear, SqlClear
    <3> QED BY <2>1, <3>1, TradeRefused
  <2>3. CASE ~(row.status # "sent" \/ ~row.countered)
    <3> DEFINE q == Uncountered(row)
               r == Resolved(rounds_, ended)
               k == [kept EXCEPT !.quote[o] = Uncountered(@), !.rounds[o] = Resolved(@, ended)]
               h == [held EXCEPT !.quote[o] = Uncountered(@), !.rounds[o] = Resolved(@, ended)]
    <3>1. MemClear(o, ended) = Did(k)
      BY <2>3, Zenon DEF MemClear
    <3>2. SqlClear(o, ended) = Did(h)
      <4>1. ~(held.quote[o].status # "sent" \/ ~held.quote[o].countered)
        BY <1>2, <2>3
      <4> QED BY <4>1, Zenon DEF SqlClear
    <3>3. q \in Quote /\ q.note = Silent
      BY <2>1, QuoteRowsTyped, QuoteNotes
    <3>4. r \in Seq(Outcomes)
      BY <1>2, RoundsTyped DEF Outcomes
    <3>5. k = [kept EXCEPT !.quote[o] = q, !.rounds[o] = r]
      BY Zenon
    <3>6. h = [held EXCEPT !.quote[o] = q, !.rounds[o] = r]
      BY <1>2
    <3> HIDE DEF k, h
    <3>7. kept' = k /\ held' = h /\ replies'
      BY <2>1, <3>1, <3>2, BothDid
    <3> HIDE DEF q, r, row, revs_, rounds_, status
    <3> QED BY <1>7, <3>3, <3>4, <3>5, <3>6, <3>7
  <2> QED BY <2>2, <2>3
<1>11. ASSUME NEW ended \in {"answered", "accepted"}, ReviseQuote(o, ended)
       PROVE  TradeInv'
  <2>1. BothTrade(MemRevise(o, ended), SqlRevise(o, ended)) /\ row \in Quote
    BY <1>3, <1>11 DEF ReviseQuote
  <2>2. CASE row.status # "sent" \/ ~KeptLive
    <3>1. MemRevise(o, ended) = Refused(kept) /\ SqlRevise(o, ended) = Refused(held)
      BY <1>2, <2>2, MirrorRead DEF MemRevise, SqlRevise
    <3> QED BY <2>1, <3>1, TradeRefused
  <2>3. CASE ~(row.status # "sent" \/ ~KeptLive)
    <3> DEFINE q == Revised(row)
               r == Resolved(rounds_, ended)
               v == <<row.terms>> \o revs_
               k == [kept EXCEPT !.quote[o] = Revised(@), !.rounds[o] = Resolved(@, ended),
                                 !.revs[o] = <<kept.quote[o].terms>> \o @]
               h == [held EXCEPT !.quote[o] = Revised(@), !.rounds[o] = Resolved(@, ended),
                                 !.revs[o] = <<held.quote[o].terms>> \o @]
    <3>1. MemRevise(o, ended) = Did(k)
      BY <2>3, Zenon DEF MemRevise
    <3>2. SqlRevise(o, ended) = Did(h)
      <4>1. ~(held.quote[o].status # "sent" \/ ~HeldLive)
        BY <1>2, <2>3, MirrorRead
      <4> QED BY <4>1, Zenon DEF SqlRevise
    <3>3. q \in Quote /\ q.note = Silent
      BY <1>11, <2>1, QuoteRowsTyped, QuoteNotes DEF ReviseQuote
    <3>4. r \in Seq(Outcomes)
      BY <1>2, RoundsTyped DEF Outcomes
    <3>5. v \in Seq(0 .. MaxRevs)
      <4>1. row.terms \in 0 .. MaxRevs
        BY <2>1 DEF Quote
      <4> QED BY <1>2, <4>1
    <3>6. k = [kept EXCEPT !.quote[o] = q, !.rounds[o] = r, !.revs[o] = v]
      BY Zenon
    <3>7. h = [held EXCEPT !.quote[o] = q, !.rounds[o] = r, !.revs[o] = v]
      <4>1. h = [held EXCEPT !.quote[o] = Revised(held.quote[o]),
                             !.rounds[o] = Resolved(held.rounds[o], ended),
                             !.revs[o] = <<held.quote[o].terms>> \o held.revs[o]]
        BY Zenon
      <4> HIDE DEF h
      <4> QED BY <1>2, <4>1
    <3> HIDE DEF k, h
    <3>8. kept' = k /\ held' = h /\ replies'
      BY <2>1, <3>1, <3>2, BothDid
    <3> HIDE DEF q, r, v, row, revs_, rounds_, status
    <3> QED BY <1>6, <3>3, <3>4, <3>5, <3>6, <3>7, <3>8
  <2> QED BY <2>2, <2>3
<1>12. ASSUME NEW s \in {"sent", "accepted", "declined", "withdrawn"}, NEW n \in Texts,
              NEW expected \in {"sent", "accepted"}, SetQuoteStatus(o, s, expected, n)
       PROVE  TradeInv'
  <2>1. BothTrade(MemSetQuote(o, s, expected, n), SqlSetQuote(o, s, expected, n)) /\ row \in Quote
    BY <1>3, <1>12 DEF SetQuoteStatus
  <2>2. CASE row.status # expected
    <3>1. /\ MemSetQuote(o, s, expected, n) = Refused(kept)
          /\ SqlSetQuote(o, s, expected, n) = Refused(held)
      BY <1>2, <2>2 DEF MemSetQuote, SqlSetQuote
    <3> QED BY <2>1, <3>1, TradeRefused
  <2>3. CASE row.status = expected
    <3> DEFINE why(q) == IF n = Silent THEN q.reason ELSE n
               ending(x) == IF expected = "sent" /\ s # "sent"
                            THEN Resolved(x, IF s = "accepted" THEN "accepted" ELSE "expired") ELSE x
               q == [row EXCEPT !.status = s, !.reason = why(row)]
               r == ending(rounds_)
               k == [kept EXCEPT !.quote[o].status = s,
                                 !.quote[o].reason = IF n = Silent THEN @ ELSE n,
                                 !.rounds[o] = IF expected = "sent" /\ s # "sent"
                                     THEN Resolved(@, IF s = "accepted" THEN "accepted" ELSE "expired")
                                     ELSE @]
               h == [held EXCEPT !.quote[o].status = s,
                                 !.quote[o].reason = IF n = Silent THEN @ ELSE n,
                                 !.rounds[o] = IF expected = "sent" /\ s # "sent"
                                     THEN Resolved(@, IF s = "accepted" THEN "accepted" ELSE "expired")
                                     ELSE @]
    <3>1. MemSetQuote(o, s, expected, n) = Did(k)
      BY <2>3, Zenon DEF MemSetQuote
    <3>2. SqlSetQuote(o, s, expected, n) = Did(h)
      <4>1. held.quote[o].status = expected
        BY <1>2, <2>3
      <4> QED BY <4>1, Zenon DEF SqlSetQuote
    <3>3. why(row) \in Texts
      BY <2>1 DEF Quote
    <3>4. q \in Quote /\ (~q.countered => q.note = Silent)
      <4> HIDE DEF why
      <4>1. q \in Quote
        BY <2>1, <3>3, QuoteRowsTyped
      <4>2. q.countered = row.countered /\ q.note = row.note
        BY <2>1, QuoteNotes
      <4> QED BY <1>3, <2>1, <4>1, <4>2, QuoteRowsTyped
    <3>5. r \in Seq(Outcomes)
      <4>1. \A x \in Outcomes : Resolved(rounds_, x) \in Seq(Outcomes)
        BY <1>2, RoundsTyped
      <4>2. "accepted" \in Outcomes /\ "expired" \in Outcomes
        BY DEF Outcomes
      <4> QED BY <1>2, <4>1, <4>2
    <3>6. k = [kept EXCEPT !.quote[o] = q, !.rounds[o] = r]
      <4>1. k = [kept EXCEPT !.quote[o] = [kept.quote[o] EXCEPT !.status = s,
                                             !.reason = why(kept.quote[o])],
                             !.rounds[o] = ending(kept.rounds[o])]
        BY <1>1, <2>1, ZenonT(60) DEF KeptTables, Tables, Quote
      <4> HIDE DEF k, why, ending
      <4> QED BY <4>1
    <3>7. h = [held EXCEPT !.quote[o] = q, !.rounds[o] = r]
      <4>1. held.quote[o] \in Quote
        BY <1>2, <2>1
      <4>2. h = [held EXCEPT !.quote[o] = [held.quote[o] EXCEPT !.status = s,
                                             !.reason = why(held.quote[o])],
                             !.rounds[o] = ending(held.rounds[o])]
        BY <1>1, <4>1, ZenonT(60) DEF HeldTables, Tables, Quote
      <4> HIDE DEF h, why, ending
      <4> QED BY <1>2, <4>2
    <3> HIDE DEF k, h
    <3>8. kept' = k /\ held' = h /\ replies'
      BY <2>1, <3>1, <3>2, BothDid
    <3> HIDE DEF q, r, row, revs_, rounds_, status
    <3> QED BY <1>7, <3>4, <3>5, <3>6, <3>7, <3>8
  <2> QED BY <2>2, <2>3
<1>13. ASSUME NEW s \in {"accepted", "declined", "withdrawn"}, NEW n \in Texts,
              SetQuoteStatus(o, s, "sent", n)
       PROVE  TradeInv'
  BY <1>12, <1>13
<1>14. ASSUME NEW s \in {"sent", "declined"}, SetQuoteStatus(o, s, "accepted", Silent)
       PROVE  TradeInv'
  BY <1>4, <1>12, <1>14
<1> HIDE DEF row, rounds_, revs_, status
<1> QED BY <1>5, <1>8, <1>9, <1>10, <1>11, <1>13, <1>14

\* The sweep's expiry ends every quote that is still out.
LEMMA ExpiryMirrored == ASSUME TradeInv, ExpireTrade PROVE TradeInv'
<1> DEFINE dead == {o \in Ops : kept.quote[o].status = "sent"}
           sqlDead == {o \in Ops : held.quote[o].status = "sent"}
           quote_ == [o \in Ops |-> IF o \in dead THEN [kept.quote[o] EXCEPT !.status = "declined"]
                                    ELSE kept.quote[o]]
           rounds_ == [o \in Ops |-> IF o \in dead THEN Resolved(kept.rounds[o], "expired")
                                     ELSE kept.rounds[o]]
           sqlQuote == [o \in Ops |-> IF o \in sqlDead THEN [held.quote[o] EXCEPT !.status = "declined"]
                                      ELSE held.quote[o]]
           sqlRounds == [o \in Ops |-> IF o \in sqlDead THEN Resolved(held.rounds[o], "expired")
                                       ELSE held.rounds[o]]
           k == [kept EXCEPT !.status = "expired", !.quote = quote_, !.rounds = rounds_]
           h == [held EXCEPT !.status = "closed", !.quote = sqlQuote, !.rounds = sqlRounds]
<1>1. /\ kept \in KeptTables /\ held \in HeldTables /\ Mirrored(kept, held)
      /\ NotesHaveCounters(kept)
  BY DEF TradeInv
<1>2. BothTrade(MemExpireTrade, SqlExpireTrade)
  BY DEF ExpireTrade
<1>3. CASE ~KeptLive
  <2>1. MemExpireTrade = Refused(kept) /\ SqlExpireTrade = Refused(held)
    BY <1>3, MirrorRead DEF MemExpireTrade, SqlExpireTrade
  <2> QED BY <1>2, <2>1, TradeRefused
<1>4. CASE KeptLive
  <2>1. MemExpireTrade = Did(k)
    BY <1>4, Zenon DEF MemExpireTrade
  <2>2. SqlExpireTrade = Did(h)
    <3>1. HeldLive
      BY <1>4, MirrorRead
    <3> QED BY <3>1, Zenon DEF SqlExpireTrade
  <2>3. sqlQuote = quote_ /\ sqlRounds = rounds_
    BY MirrorRead
  <2>4. \A o \in dead : /\ kept.quote[o] \in Quote
                        /\ [kept.quote[o] EXCEPT !.status = "declined"] \in Quote
                        /\ [kept.quote[o] EXCEPT !.status = "declined"].countered
                             = kept.quote[o].countered
                        /\ [kept.quote[o] EXCEPT !.status = "declined"].note = kept.quote[o].note
    <3>1. \A x \in Quote : /\ [x EXCEPT !.status = "declined"] \in Quote
                           /\ [x EXCEPT !.status = "declined"].countered = x.countered
                           /\ [x EXCEPT !.status = "declined"].note = x.note
      BY DEF Quote
    <3>2. \A o \in dead : kept.quote[o] \in Quote
      BY MirrorRead DEF NoQuote
    <3> QED BY <3>1, <3>2
  <2>5. quote_ \in [Ops -> Quote \cup {NoQuote}]
    BY <2>4, MirrorRead
  <2>6. rounds_ \in [Ops -> Seq(Outcomes)]
    <3>1. \A o \in Ops : Resolved(kept.rounds[o], "expired") \in Seq(Outcomes)
      BY MirrorRead, RoundsTyped DEF Outcomes
    <3> QED BY <3>1, MirrorRead
  <2>7. \A o \in Ops : quote_[o] # NoQuote /\ ~quote_[o].countered => quote_[o].note = Silent
    <3> SUFFICES ASSUME NEW o \in Ops, quote_[o] # NoQuote, ~quote_[o].countered
                 PROVE  quote_[o].note = Silent
      OBVIOUS
    <3>1. CASE o \in dead
      <4>1. kept.quote[o] # NoQuote /\ ~kept.quote[o].countered
        BY <2>4, <3>1, QuoteRowsTyped
      <4> QED BY <1>1, <2>4, <3>1, <4>1 DEF NotesHaveCounters
    <3>2. CASE o \notin dead
      BY <1>1, <3>2 DEF NotesHaveCounters
    <3> QED BY <3>1, <3>2
  <2> HIDE DEF k, h
  <2>8. kept' = k /\ held' = h /\ replies'
    BY <1>2, <2>1, <2>2, BothDid
  <2> HIDE DEF quote_, rounds_, sqlQuote, sqlRounds
  <2>9. kept' \in KeptTables /\ NotesHaveCounters(kept')
    BY <1>1, <2>5, <2>6, <2>7, <2>8 DEF k, KeptTables, Tables, KeptStatuses, NotesHaveCounters
  <2>10. held' \in HeldTables
    BY <1>1, <2>3, <2>5, <2>6, <2>8 DEF h, HeldTables, Tables
  <2>11. Mirrored(kept', held')
    <3>1. /\ kept'.match = kept.match /\ kept'.concierge = kept.concierge /\ kept'.status = "expired"
          /\ kept'.home = kept.home /\ kept'.dismissed = kept.dismissed
          /\ kept'.quote = quote_ /\ kept'.rounds = rounds_ /\ kept'.revs = kept.revs
      BY <1>1, <2>8 DEF k, KeptTables, Tables
    <3>2. /\ held'.match = held.match /\ held'.concierge = held.concierge /\ held'.status = "closed"
          /\ held'.home = held.home /\ held'.dismissed = held.dismissed
          /\ held'.quote = sqlQuote /\ held'.rounds = sqlRounds /\ held'.revs = held.revs
      BY <1>1, <2>8 DEF h, HeldTables, Tables
    <3> QED BY <1>1, <2>3, <3>1, <3>2 DEF Mirrored, ToDb
  <2> QED BY <2>8, <2>9, <2>10, <2>11
          DEF TradeInv, NotesHaveCounters, KeptTables, HeldTables, Mirrored, Tables
<1> QED BY <1>3, <1>4

LEMMA TradeCorrect == TradeInit /\ [][TradeNext]_tradeVars => []TradeInv
<1>1. ASSUME TradeInit PROVE TradeInv
  <2> DEFINE empty(s, home) ==
        [status |-> s, concierge |-> FALSE, home |-> home, match |-> [o \in Ops |-> "none"],
         dismissed |-> {}, quote |-> [o \in Ops |-> NoQuote], rounds |-> [o \in Ops |-> <<>>],
         revs |-> [o \in Ops |-> <<>>]]
  <2>1. PICK home \in Ops \cup {Nobody} :
            kept = empty("open", home) /\ held = empty("new", home) /\ replies = TRUE
    BY <1>1 DEF TradeInit
  <2>2. kept \in KeptTables
    BY <2>1 DEF KeptTables, KeptStatuses, Tables, LiveM
  <2>3. held \in HeldTables
    BY <2>1 DEF HeldTables, Tables, LiveS
  <2>4. Mirrored(kept, held)
    BY <2>1 DEF Mirrored, ToDb, Delivery
  <2>5. NotesHaveCounters(kept)
    BY <2>1 DEF NotesHaveCounters
  <2> QED BY <2>1, <2>2, <2>3, <2>4, <2>5 DEF TradeInv
<1>2. ASSUME TradeInv, [TradeNext]_tradeVars PROVE TradeInv'
  <2>1. CASE UNCHANGED tradeVars
    BY <1>2, <2>1 DEF tradeVars, TradeInv, NotesHaveCounters, KeptTables, HeldTables, Mirrored, Tables
  <2>2. CASE TradeNext
    BY <1>2, <2>2, MatchSteps, RequestSteps, QuoteSteps, ExpiryMirrored DEF TradeNext
  <2> QED BY <1>2, <2>1, <2>2
<1> QED BY <1>1, <1>2, PTL

-----------------------------------------------------------------------------
(* One person's rows.                                                      *)

UserRow == [role : Roles, version : 1 .. MaxStamp, locale : Locales]
ProfileRow == [plan : {"free", "pro"}, accepting : BOOLEAN, notify : BOOLEAN,
               suspended : BOOLEAN, seen : BOOLEAN]
SubRow == [plan : {"free", "pro"}, stamp : 0 .. MaxStamp]
DealRow_ == [invoice : Invoices, ref : BOOLEAN, buyer : Rated, operator : Rated]
AlertRow == [status : {"pending", "active", "paused", "off"}, token : Tokens, queue : SUBSET Items]
UsedRow == [sig : Sigs, exp : 0 .. MaxStamp]

\* The rows are the same, the ledger aside.
SameRows(m, p) ==
    /\ m.user = p.user /\ m.op = p.op /\ m.sub = p.sub
    /\ m.deal = p.deal /\ m.alert = p.alert /\ m.preset = p.preset

\* A signature covers its expiry, so a link that can still be presented is live
\* wherever it is: memory, which keeps expired links, and Postgres, which prunes
\* them first, find it or miss it together.
Unexpired(used) == {u \in used : u.exp >= now}
LedgersAgree ==
    /\ \A u \in mrows.used \cup prows.used : u.exp = Expiry(u.sig)
    /\ ~split => told /\ Unexpired(mrows.used) = Unexpired(prows.used)

AccountsInv ==
    /\ mrows \in Rows /\ prows \in Rows
    /\ now \in 0 .. MaxStamp /\ split \in BOOLEAN
    /\ SameRows(mrows, prows)
    /\ LedgersAgree

LEMMA AccountsInvImplies == ASSUME AccountsInv PROVE AccountsTypeOK /\ AccountsAgree
<1>1. AccountsTypeOK
  BY DEF AccountsInv, AccountsTypeOK
<1>2. [mrows EXCEPT !.used = {}] = [prows EXCEPT !.used = {}]
  BY DEF AccountsInv, SameRows, Rows
<1>3. ~split => told /\ {u \in mrows.used : u.exp >= now} = {u \in prows.used : u.exp >= now}
  BY DEF AccountsInv, LedgersAgree, Unexpired
<1> QED BY <1>1, <1>2, <1>3 DEF AccountsAgree

\* What a call leaves, when the two answer alike.
LEMMA BothGave ==
    ASSUME NEW m, NEW s, NEW k, NEW h, NEW a, NEW b,
           BothRows(m, s), m = Gave(k, a), s = Gave(h, b), a = b
    PROVE  mrows' = k /\ prows' = h /\ told' /\ now' = now
BY DEF BothRows, Gave

\* The same rows but for the ledger, which no call but the sign-in's touches.
LEMMA RowsWritten ==
    ASSUME AccountsInv, mrows' \in Rows, prows' \in Rows, SameRows(mrows', prows'),
           mrows'.used = mrows.used, prows'.used = prows.used,
           told', now' = now, split' = split
    PROVE  AccountsInv'
BY DEF AccountsInv, LedgersAgree, Unexpired, Expiry, SameRows, Rows

LEMMA RowsLeft ==
    ASSUME AccountsInv, mrows' = mrows, prows' = prows, told', now' = now, split' = split
    PROVE  AccountsInv'
BY DEF AccountsInv, LedgersAgree, Unexpired, Expiry, SameRows, Rows

\* One column of both.
LEMMA UserWritten ==
    ASSUME AccountsInv, NEW x \in UserRow, mrows' = [mrows EXCEPT !.user = x],
           prows' = [prows EXCEPT !.user = x], told', now' = now, split' = split
    PROVE  AccountsInv'
<1>1. mrows \in Rows /\ prows \in Rows /\ SameRows(mrows, prows)
  BY DEF AccountsInv
<1>2. mrows' \in Rows /\ prows' \in Rows
  BY <1>1 DEF Rows, UserRow
<1>3. SameRows(mrows', prows') /\ mrows'.used = mrows.used /\ prows'.used = prows.used
  BY <1>1 DEF Rows, SameRows
<1> QED BY <1>2, <1>3, RowsWritten

LEMMA ProfileWritten ==
    ASSUME AccountsInv, NEW x \in ProfileRow, mrows' = [mrows EXCEPT !.op = x],
           prows' = [prows EXCEPT !.op = x], told', now' = now, split' = split
    PROVE  AccountsInv'
<1>1. mrows \in Rows /\ prows \in Rows /\ SameRows(mrows, prows)
  BY DEF AccountsInv
<1>2. mrows' \in Rows /\ prows' \in Rows
  BY <1>1 DEF Rows, ProfileRow
<1>3. SameRows(mrows', prows') /\ mrows'.used = mrows.used /\ prows'.used = prows.used
  BY <1>1 DEF Rows, SameRows
<1> QED BY <1>2, <1>3, RowsWritten

LEMMA SubWritten ==
    ASSUME AccountsInv, NEW x \in SubRow, mrows' = [mrows EXCEPT !.sub = x],
           prows' = [prows EXCEPT !.sub = x], told', now' = now, split' = split
    PROVE  AccountsInv'
<1>1. mrows \in Rows /\ prows \in Rows /\ SameRows(mrows, prows)
  BY DEF AccountsInv
<1>2. mrows' \in Rows /\ prows' \in Rows
  BY <1>1 DEF Rows, SubRow
<1>3. SameRows(mrows', prows') /\ mrows'.used = mrows.used /\ prows'.used = prows.used
  BY <1>1 DEF Rows, SameRows
<1> QED BY <1>2, <1>3, RowsWritten

LEMMA DealWritten ==
    ASSUME AccountsInv, NEW x \in DealRow_, mrows' = [mrows EXCEPT !.deal = x],
           prows' = [prows EXCEPT !.deal = x], told', now' = now, split' = split
    PROVE  AccountsInv'
<1>1. mrows \in Rows /\ prows \in Rows /\ SameRows(mrows, prows)
  BY DEF AccountsInv
<1>2. mrows' \in Rows /\ prows' \in Rows
  BY <1>1 DEF Rows, DealRow_
<1>3. SameRows(mrows', prows') /\ mrows'.used = mrows.used /\ prows'.used = prows.used
  BY <1>1 DEF Rows, SameRows
<1> QED BY <1>2, <1>3, RowsWritten

LEMMA AlertWritten ==
    ASSUME AccountsInv, NEW x \in AlertRow, mrows' = [mrows EXCEPT !.alert = x],
           prows' = [prows EXCEPT !.alert = x], told', now' = now, split' = split
    PROVE  AccountsInv'
<1>1. mrows \in Rows /\ prows \in Rows /\ SameRows(mrows, prows)
  BY DEF AccountsInv
<1>2. mrows' \in Rows /\ prows' \in Rows
  BY <1>1 DEF Rows, AlertRow
<1>3. SameRows(mrows', prows') /\ mrows'.used = mrows.used /\ prows'.used = prows.used
  BY <1>1 DEF Rows, SameRows
<1> QED BY <1>2, <1>3, RowsWritten

LEMMA PresetWritten ==
    ASSUME AccountsInv, NEW x \in [Names -> 0 .. 2], mrows' = [mrows EXCEPT !.preset = x],
           prows' = [prows EXCEPT !.preset = x], told', now' = now, split' = split
    PROVE  AccountsInv'
<1>1. mrows \in Rows /\ prows \in Rows /\ SameRows(mrows, prows)
  BY DEF AccountsInv
<1>2. mrows' \in Rows /\ prows' \in Rows
  BY <1>1 DEF Rows
<1>3. SameRows(mrows', prows') /\ mrows'.used = mrows.used /\ prows'.used = prows.used
  BY <1>1 DEF Rows, SameRows
<1> QED BY <1>2, <1>3, RowsWritten

\* The columns of the one are those of the other, and well typed.
LEMMA ColumnsRead ==
    ASSUME AccountsInv
    PROVE  /\ prows.user = mrows.user /\ mrows.user \in {NoUser} \cup UserRow
           /\ prows.op = mrows.op /\ mrows.op \in {NoProfile} \cup ProfileRow
           /\ prows.sub = mrows.sub /\ mrows.sub \in {NoSub} \cup SubRow
           /\ prows.deal = mrows.deal /\ mrows.deal \in {NoDeal} \cup DealRow_
           /\ prows.alert = mrows.alert /\ mrows.alert \in {NoAlert} \cup AlertRow
           /\ prows.preset = mrows.preset /\ mrows.preset \in [Names -> 0 .. 2]
BY DEF AccountsInv, SameRows, Rows, UserRow, ProfileRow, SubRow, DealRow_, AlertRow

LEMMA UserSteps ==
    ASSUME AccountsInv,
           \/ \E r \in Roles, loc \in Locales \cup {Unset} : CreateUser(r, loc)
           \/ \E r \in Roles : SetUserRole(r)
           \/ BumpSessionVersion
    PROVE  AccountsInv'
<1> DEFINE row == mrows.user
           other == prows.user
<1>1. /\ other = row /\ row \in {NoUser} \cup UserRow
      /\ mrows \in Rows /\ prows \in Rows
  BY ColumnsRead DEF AccountsInv
<1>2. ASSUME NEW r \in Roles, NEW loc \in Locales \cup {Unset}, CreateUser(r, loc)
      PROVE  AccountsInv'
  <2>1. BothRows(MemCreateUser(r, loc), SqlCreateUser(r, loc)) /\ split' = split
    BY <1>2 DEF CreateUser
  <2>2. CASE row # NoUser
    <3> DEFINE k == [mrows EXCEPT !.user.locale = IF loc = Unset THEN @ ELSE loc]
               h == [prows EXCEPT !.user.locale = IF loc = Unset THEN @ ELSE loc]
               place(x) == IF loc = Unset THEN x.locale ELSE loc
               new(x) == [x EXCEPT !.locale = place(x)]
    <3>1. MemCreateUser(r, loc) = Gave(k, row.role)
      BY <2>2, Zenon DEF MemCreateUser
    <3>2. SqlCreateUser(r, loc) = Gave(h, other.role)
      <4>1. other # NoUser
        BY <1>1, <2>2
      <4> QED BY <4>1, Zenon DEF SqlCreateUser
    <3>3. new(row) \in UserRow
      <4>1. place(row) \in Locales
        BY <1>1, <2>2, AccountsAssumption DEF UserRow
      <4> HIDE DEF place
      <4> QED BY <1>1, <2>2, <4>1 DEF UserRow
    <3>4. k = [mrows EXCEPT !.user = new(row)]
      BY <1>1 DEF Rows
    <3>5. h = [prows EXCEPT !.user = new(other)]
      BY <1>1 DEF Rows
    <3> HIDE DEF k, h, new
    <3>6. mrows' = k /\ prows' = h /\ told' /\ now' = now
      BY <1>1, <2>1, <3>1, <3>2, BothGave
    <3> HIDE DEF row, other
    <3> QED BY <1>1, <2>1, <3>3, <3>4, <3>5, <3>6, UserWritten
  <2>3. CASE row = NoUser
    <3> DEFINE x == [role |-> r, version |-> 1,
                     locale |-> IF loc = Unset THEN CHOOSE l \in Locales : TRUE ELSE loc]
    <3>1. MemCreateUser(r, loc) = Gave([mrows EXCEPT !.user = x], r)
      BY <2>3, Zenon DEF MemCreateUser
    <3>2. SqlCreateUser(r, loc) = Gave([prows EXCEPT !.user = x], r)
      <4>1. other = NoUser
        BY <1>1, <2>3
      <4> QED BY <4>1, Zenon DEF SqlCreateUser
    <3>3. x \in UserRow
      <4> DEFINE l == IF loc = Unset THEN CHOOSE y \in Locales : TRUE ELSE loc
      <4>1. (CHOOSE y \in Locales : TRUE) \in Locales
        BY AccountsAssumption
      <4>2. l \in Locales
        BY <4>1
      <4> HIDE DEF l
      <4>3. [role |-> r, version |-> 1, locale |-> l] \in UserRow
        BY <4>2, AccountsAssumption DEF UserRow
      <4> QED BY <4>3, Zenon DEF l
    <3> HIDE DEF x
    <3>4. mrows' = [mrows EXCEPT !.user = x] /\ prows' = [prows EXCEPT !.user = x] /\ told' /\ now' = now
      BY <2>1, <3>1, <3>2, BothGave
    <3> QED BY <2>1, <3>3, <3>4, UserWritten
  <2> QED BY <2>2, <2>3
<1>3. ASSUME NEW r \in Roles, SetUserRole(r) PROVE AccountsInv'
  <2> DEFINE new(x) == [x EXCEPT !.role = r]
  <2>1. BothRows(MemSetRole(r), SqlSetRole(r)) /\ split' = split /\ row \in UserRow
    BY <1>1, <1>3 DEF SetUserRole
  <2>2. MemSetRole(r) = Gave([mrows EXCEPT !.user = new(row)], "yes")
    BY <1>1 DEF MemSetRole, Rows
  <2>3. SqlSetRole(r) = Gave([prows EXCEPT !.user = new(other)], "yes")
    BY <1>1 DEF SqlSetRole, Rows
  <2>4. new(row) \in UserRow
    BY <2>1 DEF UserRow
  <2> HIDE DEF new, row, other
  <2>5. /\ mrows' = [mrows EXCEPT !.user = new(row)] /\ prows' = [prows EXCEPT !.user = new(other)]
        /\ told' /\ now' = now
    BY <2>1, <2>2, <2>3, BothGave
  <2> QED BY <1>1, <2>1, <2>4, <2>5, UserWritten
<1>4. CASE BumpSessionVersion
  <2> DEFINE new(x) == [x EXCEPT !.version = @ + 1]
  <2>1. BothRows(MemBump, SqlBump) /\ split' = split /\ row \in UserRow /\ row.version < MaxStamp
    BY <1>1, <1>4 DEF BumpSessionVersion
  <2>2. MemBump = Gave([mrows EXCEPT !.user = new(row)], "yes")
    BY <1>1 DEF MemBump, Rows
  <2>3. SqlBump = Gave([prows EXCEPT !.user = new(other)], "yes")
    BY <1>1 DEF SqlBump, Rows
  <2>4. new(row) \in UserRow
    <3>1. row.version + 1 \in 1 .. MaxStamp
      BY <2>1, AccountsAssumption DEF UserRow
    <3> QED BY <2>1, <3>1 DEF UserRow
  <2> HIDE DEF new, row, other
  <2>5. /\ mrows' = [mrows EXCEPT !.user = new(row)] /\ prows' = [prows EXCEPT !.user = new(other)]
        /\ told' /\ now' = now
    BY <2>1, <2>2, <2>3, BothGave
  <2> QED BY <1>1, <2>1, <2>4, <2>5, UserWritten
<1> QED BY <1>2, <1>3, <1>4

\* A full ledger is the one place where the two are known to part; otherwise
\* both accept a link, or both call it used.
LEMMA LedgerSteps ==
    ASSUME AccountsInv, ~split, NEW s \in Sigs, ConsumeMagicLinkSig(s)
    PROVE  AccountsInv'
<1> DEFINE used == mrows.used
           entry == [sig |-> s, exp |-> Expiry(s)]
           full == Cardinality(used) >= LedgerCap
           live == {u \in used : u.exp >= now}
           pruned == {u \in prows.used : u.exp >= now}
           left == IF full THEN live ELSE used
           seen == \E u \in used : u.sig = s
           crowded == Cardinality(left) >= LedgerCap
           kept_ == IF seen THEN mrows
                    ELSE IF crowded THEN [mrows EXCEPT !.used = left]
                    ELSE [mrows EXCEPT !.used = left \cup {entry}]
           answer == IF seen \/ crowded THEN "replay" ELSE "yes"
           sqlSeen == \E u \in pruned : u.sig = s
           after == IF sqlSeen THEN pruned ELSE pruned \cup {entry}
           sqlAnswer == IF sqlSeen THEN "replay" ELSE "yes"
<1>1. /\ mrows \in Rows /\ prows \in Rows /\ SameRows(mrows, prows) /\ now \in 0 .. MaxStamp
      /\ used \subseteq UsedRow /\ prows.used \subseteq UsedRow
      /\ \A u \in used \cup prows.used : u.exp = Expiry(u.sig)
      /\ live = pruned
  BY DEF AccountsInv, LedgersAgree, Unexpired, Rows, UsedRow
<1>2. /\ now <= Expiry(s) /\ BothRows(MemConsume(s, Expiry(s)), SqlConsume(s, Expiry(s)))
      /\ split' = (~seen /\ Cardinality(live) >= LedgerCap)
  BY DEF ConsumeMagicLinkSig
<1>3. entry \in UsedRow /\ entry.exp = Expiry(entry.sig) /\ entry.exp >= now /\ Expiry(s) \in 0 .. MaxStamp
  BY <1>1, <1>2, AccountsAssumption DEF UsedRow, Expiry
<1>4. seen <=> sqlSeen
  BY <1>1, <1>2
<1>5. MemConsume(s, Expiry(s)) = Gave(kept_, answer)
  <2> HIDE DEF full, live
  <2> QED BY DEF MemConsume, left, full, live
<1>6. SqlConsume(s, Expiry(s)) = Gave([prows EXCEPT !.used = after], sqlAnswer)
  BY DEF SqlConsume
<1>7. /\ mrows' = kept_ /\ prows' = [prows EXCEPT !.used = after]
      /\ told' = (answer = sqlAnswer) /\ now' = now
  <2> HIDE DEF kept_, after, answer, sqlAnswer
  <2> QED BY <1>2, <1>5, <1>6 DEF BothRows, Gave
<1>8. /\ left \subseteq UsedRow /\ pruned \subseteq UsedRow /\ after \subseteq UsedRow
      /\ \A u \in left \cup after : u.exp = Expiry(u.sig)
  BY <1>1, <1>3
<1>9. /\ kept_ = [mrows EXCEPT !.used = kept_.used]
      /\ kept_.used = IF seen THEN used ELSE IF crowded THEN left ELSE left \cup {entry}
  <2> HIDE DEF seen, crowded, left
  <2> QED BY <1>1 DEF Rows
<1>10. kept_.used \subseteq UsedRow /\ \A u \in kept_.used : u.exp = Expiry(u.sig)
  <2> HIDE DEF kept_
  <2> QED BY <1>1, <1>3, <1>8, <1>9
<1>11. mrows' \in Rows /\ prows' \in Rows /\ SameRows(mrows', prows') /\ mrows'.used = kept_.used /\ prows'.used = after
  <2> DEFINE x == kept_.used
  <2>1. mrows' = [mrows EXCEPT !.used = x] /\ prows' = [prows EXCEPT !.used = after]
    BY <1>7, <1>9
  <2>2. x \subseteq UsedRow /\ after \subseteq UsedRow
    BY <1>8, <1>10
  <2> HIDE DEF x, after
  <2>3. mrows' \in Rows /\ prows' \in Rows
    BY <1>1, <2>1, <2>2 DEF Rows, UsedRow
  <2>4. SameRows(mrows', prows') /\ mrows'.used = x /\ prows'.used = after
    BY <1>1, <2>1 DEF Rows, SameRows
  <2> QED BY <2>3, <2>4 DEF x
<1>12. ASSUME seen \/ ~(Cardinality(live) >= LedgerCap)
       PROVE  /\ answer = sqlAnswer
              /\ {u \in kept_.used : u.exp >= now} = {u \in after : u.exp >= now}
  <2>1. {u \in left : u.exp >= now} = live /\ {u \in pruned : u.exp >= now} = live
    BY <1>1
  <2>2. CASE seen
    BY <1>1, <1>4, <1>9, <2>1, <2>2
  <2>3. CASE ~seen
    <3>1. ~crowded
      BY <1>12, <2>3
    <3>2. kept_.used = left \cup {entry} /\ after = pruned \cup {entry} /\ answer = "yes" /\ sqlAnswer = "yes"
      BY <1>4, <1>9, <2>3, <3>1
    <3> HIDE DEF left, pruned, after, kept_, answer, sqlAnswer, entry, live
    <3> QED BY <2>1, <3>2
  <2> QED BY <2>2, <2>3
<1>13. ~split' => told' /\ Unexpired(mrows.used)' = Unexpired(prows.used)'
  <2> HIDE DEF kept_, after, answer, sqlAnswer, seen, live
  <2> QED BY <1>2, <1>7, <1>11, <1>12 DEF Unexpired
<1>14. \A u \in mrows'.used \cup prows'.used : u.exp = Expiry(u.sig)
  BY <1>8, <1>10, <1>11
<1>15. split' \in BOOLEAN
  BY <1>2
<1> QED BY <1>1, <1>7, <1>11, <1>13, <1>14, <1>15 DEF AccountsInv, LedgersAgree, Expiry

LEMMA LoginSteps == ASSUME AccountsInv, LoginNext PROVE AccountsInv'
<1>1. CASE TimePasses
  <2>1. /\ mrows' = mrows /\ prows' = prows /\ told' = told /\ split' = split
        /\ now \in 0 .. MaxStamp /\ now' \in 0 .. MaxStamp /\ now' = now + 1
    BY <1>1, AccountsAssumption DEF TimePasses, AccountsInv
  <2>2. mrows.used \subseteq UsedRow /\ prows.used \subseteq UsedRow
    BY DEF AccountsInv, Rows, UsedRow
  <2>3. ASSUME NEW U, U \subseteq UsedRow
        PROVE  {u \in U : u.exp >= now'} = {u \in {w \in U : w.exp >= now} : u.exp >= now'}
    BY <2>1, <2>3, AccountsAssumption DEF UsedRow
  <2>4. ~split' => Unexpired(mrows.used)' = Unexpired(prows.used)'
    <3>1. {u \in mrows.used : u.exp >= now'} = {u \in Unexpired(mrows.used) : u.exp >= now'}
      BY <2>2, <2>3 DEF Unexpired
    <3>2. {u \in prows.used : u.exp >= now'} = {u \in Unexpired(prows.used) : u.exp >= now'}
      BY <2>2, <2>3 DEF Unexpired
    <3>3. ~split => Unexpired(mrows.used) = Unexpired(prows.used)
      BY DEF AccountsInv, LedgersAgree
    <3> QED BY <2>1, <3>1, <3>2, <3>3 DEF Unexpired
  <2> QED BY <2>1, <2>4 DEF AccountsInv, LedgersAgree, Expiry, SameRows, Rows
<1> QED BY <1>1, UserSteps, LedgerSteps DEF LoginNext

\* A switch of the profile, by its name.
LEMMA SwitchSteps ==
    ASSUME AccountsInv, NEW switch \in {"accepting", "notify", "suspended", "seen"},
           NEW on \in BOOLEAN, ToggleOperator(switch, on)
    PROVE  AccountsInv'
<1> DEFINE row == mrows.op
           other == prows.op
           new(x) == [x EXCEPT ![switch] = on]
<1>1. /\ other = row /\ row \in ProfileRow /\ split' = split
      /\ mrows \in Rows /\ prows \in Rows
      /\ BothRows(MemToggle(switch, on), SqlToggle(switch, on))
  BY ColumnsRead DEF AccountsInv, ToggleOperator
<1>2. MemToggle(switch, on) = Gave([mrows EXCEPT !.op = new(row)], "yes")
  BY <1>1 DEF MemToggle, Rows
<1>3. SqlToggle(switch, on) = Gave([prows EXCEPT !.op = new(other)], "yes")
  BY <1>1 DEF SqlToggle, Rows
<1>4. new(row) \in ProfileRow
  <2>1. CASE switch = "accepting"
    BY <1>1, <2>1 DEF ProfileRow
  <2>2. CASE switch = "notify"
    BY <1>1, <2>2 DEF ProfileRow
  <2>3. CASE switch = "suspended"
    BY <1>1, <2>3 DEF ProfileRow
  <2>4. CASE switch = "seen"
    BY <1>1, <2>4 DEF ProfileRow
  <2> QED BY <2>1, <2>2, <2>3, <2>4
<1> HIDE DEF new, row, other
<1>5. /\ mrows' = [mrows EXCEPT !.op = new(row)] /\ prows' = [prows EXCEPT !.op = new(other)]
      /\ told' /\ now' = now
  BY <1>1, <1>2, <1>3, BothGave
<1> QED BY <1>1, <1>4, <1>5, ProfileWritten

LEMMA ProfileSteps ==
    ASSUME AccountsInv, NEW p \in {"free", "pro"}, UpsertOperator(p)
    PROVE  AccountsInv'
<1> DEFINE row == mrows.op
           other == prows.op
           fresh == [plan |-> p, accepting |-> TRUE, notify |-> TRUE, suspended |-> FALSE, seen |-> FALSE]
           new(x) == IF x = NoProfile THEN fresh ELSE [x EXCEPT !.plan = p]
<1>1. /\ other = row /\ row \in {NoProfile} \cup ProfileRow /\ split' = split
      /\ mrows \in Rows /\ prows \in Rows
      /\ BothRows(MemUpsertOperator(p), SqlUpsertOperator(p))
  BY ColumnsRead DEF AccountsInv, UpsertOperator
<1>2. MemUpsertOperator(p) = Gave([mrows EXCEPT !.op = new(row)], "yes")
  BY <1>1 DEF MemUpsertOperator, Rows
<1>3. SqlUpsertOperator(p) = Gave([prows EXCEPT !.op = new(other)], "yes")
  BY <1>1 DEF SqlUpsertOperator, Rows
<1>4. new(row) \in ProfileRow
  <2>1. TRUE \in BOOLEAN /\ FALSE \in BOOLEAN
    OBVIOUS
  <2>2. fresh \in ProfileRow
    BY <2>1 DEF ProfileRow
  <2>3. row # NoProfile => [row EXCEPT !.plan = p] \in ProfileRow
    BY <1>1 DEF ProfileRow
  <2> QED BY <2>2, <2>3
<1> HIDE DEF new, row, other
<1>5. /\ mrows' = [mrows EXCEPT !.op = new(row)] /\ prows' = [prows EXCEPT !.op = new(other)]
      /\ told' /\ now' = now
  BY <1>1, <1>2, <1>3, BothGave
<1> QED BY <1>1, <1>4, <1>5, ProfileWritten

\* The two state the same test of the stamp in opposite terms.
LEMMA SubscriptionSteps ==
    ASSUME AccountsInv, NEW p \in {"free", "pro"}, NEW stamp \in 0 .. MaxStamp,
           UpsertSubscriptionRow(p, stamp)
    PROVE  AccountsInv'
<1> DEFINE row == mrows.sub
           other == prows.sub
           x == [plan |-> p, stamp |-> stamp]
           old == stamp # 0 /\ row # NoSub /\ row.stamp # 0 /\ stamp <= row.stamp
           fresh == other = NoSub \/ stamp = 0 \/ stamp > other.stamp
<1>1. /\ other = row /\ row \in {NoSub} \cup SubRow /\ split' = split
      /\ mrows \in Rows /\ prows \in Rows
      /\ BothRows(MemUpsertSub(p, stamp), SqlUpsertSub(p, stamp))
  BY ColumnsRead DEF AccountsInv, UpsertSubscriptionRow
<1>2. x \in SubRow
  BY DEF SubRow
<1>3. old <=> ~fresh
  BY <1>1, AccountsAssumption DEF SubRow
<1>4. MemUpsertSub(p, stamp) = IF old THEN Gave(mrows, row.plan) ELSE Gave([mrows EXCEPT !.sub = x], p)
  BY Zenon DEF MemUpsertSub
<1>5. SqlUpsertSub(p, stamp) = IF fresh THEN Gave([prows EXCEPT !.sub = x], p) ELSE Gave(prows, other.plan)
  BY Zenon DEF SqlUpsertSub
<1> HIDE DEF row, other, x, old, fresh
<1>6. CASE old
  <2>1. MemUpsertSub(p, stamp) = Gave(mrows, row.plan) /\ SqlUpsertSub(p, stamp) = Gave(prows, other.plan)
    BY <1>3, <1>4, <1>5, <1>6
  <2>2. mrows' = mrows /\ prows' = prows /\ told' /\ now' = now
    BY <1>1, <2>1, BothGave
  <2> QED BY <1>1, <2>2, RowsLeft
<1>7. CASE ~old
  <2>1. MemUpsertSub(p, stamp) = Gave([mrows EXCEPT !.sub = x], p) /\ SqlUpsertSub(p, stamp) = Gave([prows EXCEPT !.sub = x], p)
    BY <1>3, <1>4, <1>5, <1>7
  <2>2. mrows' = [mrows EXCEPT !.sub = x] /\ prows' = [prows EXCEPT !.sub = x] /\ told' /\ now' = now
    BY <1>1, <2>1, BothGave
  <2> QED BY <1>1, <1>2, <2>2, SubWritten
<1> QED BY <1>6, <1>7

LEMMA PresetSteps ==
    ASSUME AccountsInv, NEW n \in Names,
           DeleteQuoteTemplate(n) \/ \E a \in 1 .. 2 : UpsertQuoteTemplate(n, a)
    PROVE  AccountsInv'
<1> DEFINE row == mrows.preset
           other == prows.preset
           new(x, a) == [x EXCEPT ![n] = a]
<1>1. /\ other = row /\ row \in [Names -> 0 .. 2] /\ mrows \in Rows /\ prows \in Rows
  BY ColumnsRead DEF AccountsInv
<1>2. \A a \in 0 .. 2 : new(row, a) \in [Names -> 0 .. 2]
  BY <1>1
<1>3. CASE DeleteQuoteTemplate(n)
  <2>1. BothRows(MemDropPreset(n), SqlDropPreset(n)) /\ split' = split
    BY <1>3 DEF DeleteQuoteTemplate
  <2>2. MemDropPreset(n) = Gave([mrows EXCEPT !.preset = new(row, 0)], row[n] # 0)
    BY <1>1 DEF MemDropPreset, Rows
  <2>3. SqlDropPreset(n) = Gave([prows EXCEPT !.preset = new(other, 0)], other[n] # 0)
    BY <1>1 DEF SqlDropPreset, Rows
  <2> HIDE DEF new, row, other
  <2>4. (row[n] # 0) = (other[n] # 0)
    BY <1>1
  <2>5. /\ mrows' = [mrows EXCEPT !.preset = new(row, 0)] /\ prows' = [prows EXCEPT !.preset = new(other, 0)]
        /\ told' /\ now' = now
    BY <2>1, <2>2, <2>3, <2>4, BothGave
  <2> QED BY <1>1, <1>2, <2>1, <2>5, PresetWritten
<1>4. ASSUME NEW a \in 1 .. 2, UpsertQuoteTemplate(n, a) PROVE AccountsInv'
  <2>1. BothRows(MemPreset(n, a), SqlPreset(n, a)) /\ split' = split
    BY <1>4 DEF UpsertQuoteTemplate
  <2>2. MemPreset(n, a) = Gave([mrows EXCEPT !.preset = new(row, a)], "yes")
    BY <1>1 DEF MemPreset, Rows
  <2>3. SqlPreset(n, a) = Gave([prows EXCEPT !.preset = new(other, a)], "yes")
    BY <1>1 DEF SqlPreset, Rows
  <2>4. new(row, a) \in [Names -> 0 .. 2]
    BY <1>2
  <2> HIDE DEF new, row, other
  <2>5. /\ mrows' = [mrows EXCEPT !.preset = new(row, a)] /\ prows' = [prows EXCEPT !.preset = new(other, a)]
        /\ told' /\ now' = now
    BY <2>1, <2>2, <2>3, BothGave
  <2> QED BY <1>1, <2>1, <2>4, <2>5, PresetWritten
<1> QED BY <1>3, <1>4

LEMMA OperatorSteps == ASSUME AccountsInv, OperatorNext PROVE AccountsInv'
<1>1. TRUE \in BOOLEAN
  OBVIOUS
<1>2. ASSUME ToggleOperator("seen", TRUE) PROVE AccountsInv'
  BY <1>1, <1>2, SwitchSteps
<1> QED BY <1>2, ProfileSteps, SubscriptionSteps, SwitchSteps, PresetSteps DEF OperatorNext

\* The deal.
LEMMA InvoiceSteps ==
    ASSUME AccountsInv, NEW s \in Invoices, NEW expectedIn \in SUBSET Invoices, NEW ref \in BOOLEAN,
           SetDealInvoice(s, expectedIn, ref)
    PROVE  AccountsInv'
<1> DEFINE row == mrows.deal
           other == prows.deal
           new(x) == [x EXCEPT !.invoice = s, !.ref = @ \/ ref]
<1>1. /\ other = row /\ row \in DealRow_ /\ split' = split
      /\ mrows \in Rows /\ prows \in Rows
      /\ BothRows(MemInvoice(s, expectedIn, ref), SqlInvoice(s, expectedIn, ref))
  BY ColumnsRead DEF AccountsInv, SetDealInvoice
<1>2. CASE row.invoice \notin expectedIn
  <2>1. MemInvoice(s, expectedIn, ref) = Gave(mrows, "no")
    BY <1>2, Zenon DEF MemInvoice
  <2>2. SqlInvoice(s, expectedIn, ref) = Gave(prows, "no")
    <3>1. other.invoice \notin expectedIn
      BY <1>1, <1>2
    <3> QED BY <3>1, Zenon DEF SqlInvoice
  <2> HIDE DEF row, other
  <2>3. mrows' = mrows /\ prows' = prows /\ told' /\ now' = now
    BY <1>1, <2>1, <2>2, BothGave
  <2> QED BY <1>1, <2>3, RowsLeft
<1>3. CASE row.invoice \in expectedIn
  <2> DEFINE k == [mrows EXCEPT !.deal.invoice = s, !.deal.ref = @ \/ ref]
             h == [prows EXCEPT !.deal.invoice = s, !.deal.ref = @ \/ ref]
  <2>1. MemInvoice(s, expectedIn, ref) = Gave(k, "yes")
    BY <1>3, Zenon DEF MemInvoice
  <2>2. SqlInvoice(s, expectedIn, ref) = Gave(h, "yes")
    <3>1. other.invoice \in expectedIn
      BY <1>1, <1>3
    <3> QED BY <3>1, Zenon DEF SqlInvoice
  <2>3. new(row) \in DealRow_
    <3>1. \A x \in BOOLEAN : [row EXCEPT !.invoice = s, !.ref = x] \in DealRow_
      BY <1>1 DEF DealRow_
    <3> DEFINE kept_ == row.ref \/ ref
    <3>2. kept_ \in BOOLEAN
      OBVIOUS
    <3> HIDE DEF kept_
    <3>3. [row EXCEPT !.invoice = s, !.ref = kept_] \in DealRow_
      BY <3>1, <3>2, Zenon
    <3> QED BY <3>3, Zenon DEF kept_
  <2>4. k = [mrows EXCEPT !.deal = new(row)]
    BY <1>1 DEF Rows, DealRow_
  <2>5. h = [prows EXCEPT !.deal = new(other)]
    BY <1>1 DEF Rows, DealRow_
  <2> HIDE DEF k, h, new, row, other
  <2>6. mrows' = k /\ prows' = h /\ told' /\ now' = now
    BY <1>1, <2>1, <2>2, BothGave
  <2> QED BY <1>1, <2>3, <2>4, <2>5, <2>6, DealWritten
<1> QED BY <1>2, <1>3

LEMMA RatingSteps ==
    ASSUME AccountsInv, NEW side \in {"buyer", "operator"}, NEW n \in {0, 1, 5, 6},
           RateDeal(side, n)
    PROVE  AccountsInv'
<1> DEFINE row == mrows.deal
           other == prows.deal
           new(x) == [x EXCEPT ![side] = n]
           taken == row[side] # 0 \/ row.invoice = "void" \/ n < 1 \/ n > 5
           open == other[side] = 0 /\ other.invoice # "void" /\ n \in 1 .. 5
<1>1. /\ other = row /\ row \in DealRow_ /\ split' = split
      /\ mrows \in Rows /\ prows \in Rows
      /\ BothRows(MemRate(side, n), SqlRate(side, n))
  BY ColumnsRead DEF AccountsInv, RateDeal
<1>2. taken <=> ~open
  BY <1>1
<1>3. MemRate(side, n) = IF taken THEN Gave(mrows, "no") ELSE Gave([mrows EXCEPT !.deal[side] = n], "yes")
  BY Zenon DEF MemRate
<1>4. SqlRate(side, n) = IF open THEN Gave([prows EXCEPT !.deal[side] = n], "yes") ELSE Gave(prows, "no")
  BY Zenon DEF SqlRate
<1>5. [mrows EXCEPT !.deal[side] = n] = [mrows EXCEPT !.deal = new(row)]
  BY <1>1 DEF Rows
<1>6. [prows EXCEPT !.deal[side] = n] = [prows EXCEPT !.deal = new(other)]
  BY <1>1 DEF Rows
<1>7. open => new(row) \in DealRow_
  <2>1. open => n \in Rated
    BY DEF Rated
  <2>2. CASE side = "buyer"
    BY <1>1, <2>1, <2>2 DEF DealRow_
  <2>3. CASE side = "operator"
    BY <1>1, <2>1, <2>3 DEF DealRow_
  <2> QED BY <2>2, <2>3
<1> HIDE DEF taken, open, new, row, other
<1>8. CASE taken
  <2>1. MemRate(side, n) = Gave(mrows, "no") /\ SqlRate(side, n) = Gave(prows, "no")
    BY <1>2, <1>3, <1>4, <1>8
  <2>2. mrows' = mrows /\ prows' = prows /\ told' /\ now' = now
    BY <1>1, <2>1, BothGave
  <2> QED BY <1>1, <2>2, RowsLeft
<1>9. CASE ~taken
  <2>1. /\ MemRate(side, n) = Gave([mrows EXCEPT !.deal = new(row)], "yes")
        /\ SqlRate(side, n) = Gave([prows EXCEPT !.deal = new(other)], "yes")
    BY <1>2, <1>3, <1>4, <1>5, <1>6, <1>9
  <2>2. /\ mrows' = [mrows EXCEPT !.deal = new(row)] /\ prows' = [prows EXCEPT !.deal = new(other)]
        /\ told' /\ now' = now
    BY <1>1, <2>1, BothGave
  <2> QED BY <1>1, <1>2, <1>7, <1>9, <2>2, DealWritten
<1> QED BY <1>8, <1>9

LEMMA ClearRatingSteps == ASSUME AccountsInv, ClearDealRating PROVE AccountsInv'
<1> DEFINE row == mrows.deal
           other == prows.deal
           new(x) == [x EXCEPT !.buyer = 0]
<1>1. /\ other = row /\ row \in DealRow_ /\ split' = split
      /\ mrows \in Rows /\ prows \in Rows
      /\ BothRows(MemClearRating, SqlClearRating)
  BY ColumnsRead DEF AccountsInv, ClearDealRating
<1>2. CASE row.buyer = 0
  <2>1. MemClearRating = Gave(mrows, "no") /\ SqlClearRating = Gave(prows, "no")
    BY <1>1, <1>2 DEF MemClearRating, SqlClearRating
  <2>2. mrows' = mrows /\ prows' = prows /\ told' /\ now' = now
    BY <1>1, <2>1, BothGave
  <2> QED BY <1>1, <2>2, RowsLeft
<1>3. CASE row.buyer # 0
  <2>1. MemClearRating = Gave([mrows EXCEPT !.deal = new(row)], "yes")
    BY <1>1, <1>3 DEF MemClearRating, Rows
  <2>2. SqlClearRating = Gave([prows EXCEPT !.deal = new(other)], "yes")
    BY <1>1, <1>3 DEF SqlClearRating, Rows
  <2>3. new(row) \in DealRow_
    BY <1>1 DEF DealRow_, Rated
  <2> HIDE DEF new, row, other
  <2>4. /\ mrows' = [mrows EXCEPT !.deal = new(row)] /\ prows' = [prows EXCEPT !.deal = new(other)]
        /\ told' /\ now' = now
    BY <1>1, <2>1, <2>2, BothGave
  <2> QED BY <1>1, <2>3, <2>4, DealWritten
<1> QED BY <1>2, <1>3

LEMMA DealSteps == ASSUME AccountsInv, DealNext PROVE AccountsInv'
<1>1. CASE CreateDeal
  <2> DEFINE x == [invoice |-> "pending", ref |-> FALSE, buyer |-> 0, operator |-> 0]
  <2>1. /\ prows.deal = mrows.deal /\ split' = split
        /\ BothRows(MemCreateDeal, SqlCreateDeal)
    BY <1>1, ColumnsRead DEF CreateDeal
  <2>2. x \in DealRow_
    <3>1. FALSE \in BOOLEAN /\ "pending" \in Invoices /\ 0 \in Rated
      BY DEF Invoices, Rated
    <3> QED BY <3>1 DEF DealRow_
  <2>3. CASE mrows.deal # NoDeal
    <3>1. MemCreateDeal = Gave(mrows, "duplicate")
      BY <2>3, Zenon DEF MemCreateDeal
    <3>2. SqlCreateDeal = Gave(prows, "duplicate")
      BY <2>1, <2>3, Zenon DEF SqlCreateDeal
    <3>3. mrows' = mrows /\ prows' = prows /\ told' /\ now' = now
      BY <2>1, <3>1, <3>2, BothGave
    <3> QED BY <2>1, <3>3, RowsLeft
  <2>4. CASE mrows.deal = NoDeal
    <3>1. MemCreateDeal = Gave([mrows EXCEPT !.deal = x], "yes")
      BY <2>4, Zenon DEF MemCreateDeal
    <3>2. SqlCreateDeal = Gave([prows EXCEPT !.deal = x], "yes")
      BY <2>1, <2>4, Zenon DEF SqlCreateDeal
    <3> HIDE DEF x
    <3>3. mrows' = [mrows EXCEPT !.deal = x] /\ prows' = [prows EXCEPT !.deal = x] /\ told' /\ now' = now
      BY <2>1, <3>1, <3>2, BothGave
    <3> QED BY <2>1, <2>2, <3>3, DealWritten
  <2> QED BY <2>3, <2>4
<1> QED BY <1>1, InvoiceSteps, RatingSteps, ClearRatingSteps DEF DealNext

-----------------------------------------------------------------------------
\* The saved search: a status written when the row passes a test, or left alone.
LEMMA AlertChanged ==
    ASSUME AccountsInv, HasAlert, NEW m, NEW s, BothRows(m, s), split' = split,
           NEW to \in {"pending", "active", "paused", "off"}, NEW ok, NEW a, NEW b, a = b,
           m = IF ok THEN Gave([mrows EXCEPT !.alert.status = to], a) ELSE Gave(mrows, b),
           s = IF ok THEN Gave([prows EXCEPT !.alert.status = to], a) ELSE Gave(prows, b)
    PROVE  AccountsInv'
<1> DEFINE row == mrows.alert
           other == prows.alert
           new(x) == [x EXCEPT !.status = to]
<1>1. /\ other = row /\ row \in AlertRow /\ mrows \in Rows /\ prows \in Rows
  BY ColumnsRead DEF AccountsInv, HasAlert
<1>2. [mrows EXCEPT !.alert.status = to] = [mrows EXCEPT !.alert = new(row)]
  BY <1>1 DEF Rows
<1>3. [prows EXCEPT !.alert.status = to] = [prows EXCEPT !.alert = new(other)]
  BY <1>1 DEF Rows
<1>4. new(row) \in AlertRow
  BY <1>1 DEF AlertRow
<1> HIDE DEF new, row, other
<1>5. CASE ok
  <2>1. mrows' = [mrows EXCEPT !.alert = new(row)] /\ prows' = [prows EXCEPT !.alert = new(other)] /\ told' /\ now' = now
    BY <1>2, <1>3, <1>5, BothGave
  <2> QED BY <1>1, <1>4, <2>1, AlertWritten
<1>6. CASE ~ok
  <2>1. mrows' = mrows /\ prows' = prows /\ told' /\ now' = now
    BY <1>6, BothGave
  <2> QED BY <2>1, RowsLeft
<1> QED BY <1>5, <1>6

LEMMA AlertStatusSteps ==
    ASSUME AccountsInv,
           \/ \E t \in Tokens : ConfirmSearchAlert(t) \/ UnsubscribeSearchAlert(t)
           \/ \E to \in {"paused", "active"}, from \in {{"active"}, {"paused"}} : SetSearchAlertStatus(to, from)
           \/ OffSearchAlertsByEmail
    PROVE  AccountsInv'
<1>1. prows.alert = mrows.alert
  BY ColumnsRead
<1>2. ASSUME NEW t \in Tokens, ConfirmSearchAlert(t) PROVE AccountsInv'
  <2> DEFINE ok == mrows.alert.token = t /\ mrows.alert.status = "pending"
  <2>1. MemConfirm(t) = IF ok THEN Gave([mrows EXCEPT !.alert.status = "active"], "yes") ELSE Gave(mrows, "null")
    BY Zenon DEF MemConfirm
  <2>2. SqlConfirm(t) = IF ok THEN Gave([prows EXCEPT !.alert.status = "active"], "yes") ELSE Gave(prows, "null")
    BY <1>1 DEF SqlConfirm
  <2>3. HasAlert /\ BothRows(MemConfirm(t), SqlConfirm(t)) /\ split' = split
    BY <1>2 DEF ConfirmSearchAlert
  <2> HIDE DEF ok
  <2> QED BY <2>1, <2>2, <2>3, AlertChanged
<1>3. ASSUME NEW t \in Tokens, UnsubscribeSearchAlert(t) PROVE AccountsInv'
  <2> DEFINE ok == mrows.alert.token = t /\ mrows.alert.status # "off"
  <2>1. MemUnsubscribe(t) = IF ok THEN Gave([mrows EXCEPT !.alert.status = "off"], "yes") ELSE Gave(mrows, "null")
    BY Zenon DEF MemUnsubscribe
  <2>2. SqlUnsubscribe(t) = IF ok THEN Gave([prows EXCEPT !.alert.status = "off"], "yes") ELSE Gave(prows, "null")
    BY <1>1 DEF SqlUnsubscribe
  <2>3. HasAlert /\ BothRows(MemUnsubscribe(t), SqlUnsubscribe(t)) /\ split' = split
    BY <1>3 DEF UnsubscribeSearchAlert
  <2> HIDE DEF ok
  <2> QED BY <2>1, <2>2, <2>3, AlertChanged
<1>4. ASSUME NEW to \in {"paused", "active"}, NEW from \in {{"active"}, {"paused"}}, SetSearchAlertStatus(to, from)
      PROVE  AccountsInv'
  <2> DEFINE ok == mrows.alert.status \in from
  <2>1. MemSetAlert(to, from) = IF ok THEN Gave([mrows EXCEPT !.alert.status = to], "yes") ELSE Gave(mrows, "null")
    BY Zenon DEF MemSetAlert
  <2>2. SqlSetAlert(to, from) = IF ok THEN Gave([prows EXCEPT !.alert.status = to], "yes") ELSE Gave(prows, "null")
    BY <1>1 DEF SqlSetAlert
  <2>3. HasAlert /\ BothRows(MemSetAlert(to, from), SqlSetAlert(to, from)) /\ split' = split
    BY <1>4 DEF SetSearchAlertStatus
  <2> HIDE DEF ok
  <2> QED BY <2>1, <2>2, <2>3, AlertChanged
<1>5. CASE OffSearchAlertsByEmail
  <2> DEFINE a == mrows.alert.status # "off"
             b == prows.alert.status # "off"
             k == [mrows EXCEPT !.alert.status = "off"]
             h == [prows EXCEPT !.alert.status = "off"]
  <2>1. MemOff = Gave(k, a) /\ SqlOff = Gave(h, b) /\ a = b
    BY <1>1 DEF MemOff, SqlOff
  <2>2. MemOff = (IF TRUE THEN Gave(k, a) ELSE Gave(mrows, a)) /\ SqlOff = (IF TRUE THEN Gave(h, a) ELSE Gave(prows, a))
    BY <2>1
  <2>3. HasAlert /\ BothRows(MemOff, SqlOff) /\ split' = split
    BY <1>5 DEF OffSearchAlertsByEmail
  <2> HIDE DEF a, b
  <2> QED BY <2>2, <2>3, AlertChanged
<1> QED BY <1>2, <1>3, <1>4, <1>5

LEMMA QueueSteps ==
    ASSUME AccountsInv, MarkSearchAlerted \/ \E i \in Items : AppendSearchAlertPending(i)
    PROVE  AccountsInv'
<1> DEFINE row == mrows.alert
           other == prows.alert
<1>1. mrows \in Rows /\ prows \in Rows /\ other = row
  BY ColumnsRead DEF AccountsInv
<1>2. CASE MarkSearchAlerted
  <2> DEFINE new(x) == [x EXCEPT !.queue = {}]
  <2>1. row \in AlertRow /\ BothRows(MemAlerted, SqlAlerted) /\ split' = split
    BY <1>2, ColumnsRead DEF MarkSearchAlerted, HasAlert
  <2>2. MemAlerted = Gave([mrows EXCEPT !.alert = new(row)], "yes")
    BY <1>1 DEF MemAlerted, Rows
  <2>3. SqlAlerted = Gave([prows EXCEPT !.alert = new(other)], "yes")
    BY <1>1 DEF SqlAlerted, Rows
  <2>4. new(row) \in AlertRow
    BY <2>1 DEF AlertRow
  <2> HIDE DEF new, row, other
  <2>5. /\ mrows' = [mrows EXCEPT !.alert = new(row)] /\ prows' = [prows EXCEPT !.alert = new(other)]
        /\ told' /\ now' = now
    BY <2>1, <2>2, <2>3, BothGave
  <2> QED BY <1>1, <2>1, <2>4, <2>5, AlertWritten
<1>3. ASSUME NEW i \in Items, AppendSearchAlertPending(i) PROVE AccountsInv'
  <2> DEFINE new(x) == [x EXCEPT !.queue = @ \cup {i}]
  <2>1. row \in AlertRow /\ BothRows(MemAppend(i), SqlAppend(i)) /\ split' = split
    BY <1>3, ColumnsRead DEF AppendSearchAlertPending, HasAlert
  <2>2. MemAppend(i) = Gave([mrows EXCEPT !.alert = new(row)], "yes")
    BY <1>1 DEF MemAppend, Rows
  <2>3. SqlAppend(i) = Gave([prows EXCEPT !.alert = new(other)], "yes")
    BY <1>1 DEF SqlAppend, Rows
  <2>4. new(row) \in AlertRow
    BY <2>1 DEF AlertRow
  <2> HIDE DEF new, row, other
  <2>5. /\ mrows' = [mrows EXCEPT !.alert = new(row)] /\ prows' = [prows EXCEPT !.alert = new(other)]
        /\ told' /\ now' = now
    BY <2>1, <2>2, <2>3, BothGave
  <2> QED BY <1>1, <2>1, <2>4, <2>5, AlertWritten
<1> QED BY <1>2, <1>3

LEMMA SubscribeSteps ==
    ASSUME AccountsInv, NEW t \in Tokens, CreateSearchAlert(t)
    PROVE  AccountsInv'
<1> DEFINE row == mrows.alert
           other == prows.alert
           x == [status |-> "pending", token |-> t, queue |-> {}]
<1>1. /\ mrows \in Rows /\ prows \in Rows /\ other = row /\ row \in {NoAlert} \cup AlertRow
      /\ BothRows(MemSubscribe(t), SqlSubscribe(t)) /\ split' = split
  BY ColumnsRead DEF AccountsInv, CreateSearchAlert
<1>2. CASE row # NoAlert
  <2>1. MemSubscribe(t) = Gave([mrows EXCEPT !.alert = Rearmed(row, t)], "rotated")
    BY <1>1, <1>2 DEF MemSubscribe, Rows
  <2>2. SqlSubscribe(t) = Gave([prows EXCEPT !.alert = Rearmed(other, t)], "rotated")
    BY <1>1, <1>2 DEF SqlSubscribe, Rows
  <2>3. Rearmed(row, t) \in AlertRow
    <3> DEFINE z == IF row.status \in {"off", "paused"} THEN "pending" ELSE row.status
    <3>1. z \in {"pending", "active", "paused", "off"}
      BY <1>1, <1>2 DEF AlertRow
    <3>2. Rearmed(row, t) = [row EXCEPT !.token = t, !.status = z]
      BY <1>1, <1>2 DEF Rearmed, AlertRow
    <3> HIDE DEF z
    <3> QED BY <1>1, <1>2, <3>1, <3>2 DEF AlertRow
  <2> HIDE DEF row, other
  <2>4. /\ mrows' = [mrows EXCEPT !.alert = Rearmed(row, t)]
        /\ prows' = [prows EXCEPT !.alert = Rearmed(other, t)] /\ told' /\ now' = now
    BY <1>1, <2>1, <2>2, BothGave
  <2> QED BY <1>1, <2>3, <2>4, AlertWritten
<1>3. CASE row = NoAlert
  <2>1. MemSubscribe(t) = Gave([mrows EXCEPT !.alert = x], "created")
    BY <1>3, Zenon DEF MemSubscribe
  <2>2. SqlSubscribe(t) = Gave([prows EXCEPT !.alert = x], "created")
    BY <1>1, <1>3, Zenon DEF SqlSubscribe
  <2>3. x \in AlertRow
    BY DEF AlertRow
  <2> HIDE DEF x
  <2>4. mrows' = [mrows EXCEPT !.alert = x] /\ prows' = [prows EXCEPT !.alert = x] /\ told' /\ now' = now
    BY <1>1, <2>1, <2>2, BothGave
  <2> QED BY <1>1, <2>3, <2>4, AlertWritten
<1> QED BY <1>2, <1>3

LEMMA AlertSteps == ASSUME AccountsInv, AlertNext PROVE AccountsInv'
BY SubscribeSteps, AlertStatusSteps, QueueSteps DEF AlertNext

\* No sequence of calls on one person's rows leaves the two apart.
LEMMA AccountsCorrect ==
    AccountsInit /\ [][LoginNext \/ OperatorNext \/ DealNext \/ AlertNext]_accountsVars => []AccountsInv
<1>1. AccountsInit => AccountsInv
  <2>1. ASSUME AccountsInit PROVE mrows \in Rows /\ prows \in Rows
    BY <2>1 DEF AccountsInit, Rows
  <2>2. ASSUME AccountsInit PROVE now \in 0 .. MaxStamp
    BY <2>2, AccountsAssumption DEF AccountsInit
  <2>3. ASSUME AccountsInit PROVE split \in BOOLEAN
    BY <2>3 DEF AccountsInit
  <2>4. ASSUME AccountsInit PROVE SameRows(mrows, prows)
    BY <2>4 DEF AccountsInit, SameRows
  <2>5. ASSUME AccountsInit PROVE LedgersAgree
    <3>1. mrows = prows /\ mrows.used = {} /\ told = TRUE
      BY <2>5 DEF AccountsInit
    <3>2. told
      BY <3>1
    <3> QED BY <3>1, <3>2 DEF LedgersAgree
  <2> QED BY <2>1, <2>2, <2>3, <2>4, <2>5 DEF AccountsInv
<1>2. AccountsInv /\ [LoginNext \/ OperatorNext \/ DealNext \/ AlertNext]_accountsVars => AccountsInv'
  <2>1. ASSUME AccountsInv, UNCHANGED accountsVars PROVE AccountsInv'
    BY <2>1 DEF accountsVars, AccountsInv, SameRows, LedgersAgree, Unexpired, Expiry, Rows
  <2> QED BY <2>1, LoginSteps, OperatorSteps, DealSteps, AlertSteps
<1> QED BY <1>1, <1>2, PTL

-----------------------------------------------------------------------------
(* The request tables.                                                     *)

\* getRfq of each: one row read in both.
SamePair(m, s) ==
    IF s = NoRow THEN m = NoRow
    ELSE /\ m # NoRow
         /\ ToDb(m.status) = s.status
         /\ m.until = s.until /\ m.born = s.born /\ m.paused = s.paused /\ m.rungs = s.rungs

\* What the map of keys needs to stand for the partial unique index: a key it
\* still holds is the key of its holder's row, live or not, and every live row
\* holds its own.  A re-key that kept the old entries would break the first, a
\* revival after another claimed the key would break the second.
HoldersKeep == \A k \in Keys : mem.dedupe[k] # NoRfq =>
                  sql[mem.dedupe[k]] # NoRow /\ sql[mem.dedupe[k]].key = k
LiveHold == \A r \in Rfqs : SqlLive(r) => mem.dedupe[sql[r].key] = r

TablesAgree ==
    /\ said
    /\ \A r \in Rfqs : SamePair(mem.row[r], sql[r])
    /\ HoldersKeep
    /\ LiveHold

RequestsInv == RequestsTypeOK /\ (~apart => TablesAgree)

LEMMA RowsRead ==
    ASSUME RequestsInv, NEW r \in Rfqs
    PROVE  /\ mem.row[r] \in MemRfq \cup {NoRow} /\ sql[r] \in SqlRfq \cup {NoRow}
           /\ mem = [row |-> mem.row, dedupe |-> mem.dedupe]
           /\ mem.row \in [Rfqs -> MemRfq \cup {NoRow}]
           /\ mem.dedupe \in [Keys -> Rfqs \cup {NoRfq}]
BY DEF RequestsInv, RequestsTypeOK

\* A status the interface calls live is one the rows call live.
LEMMA PairsLive ==
    ASSUME NEW m \in MemRfq \cup {NoRow}, NEW s \in SqlRfq \cup {NoRow}, SamePair(m, s)
    PROVE  /\ m = NoRow <=> s = NoRow
           /\ m.status \in LIVE_RFQ_STATUSES <=> s.status \in LiveRows
           /\ s.status \in LiveRows => s \in SqlRfq
           /\ m.status \in LIVE_RFQ_STATUSES => m \in MemRfq
<1>1. m # NoRow => m.status \in LIVE_RFQ_STATUSES \cup {"closed", "expired", "spam"}
  BY DEF MemRfq
<1>2. NoRow.status = "none"
  BY DEF NoRow
<1>3. CASE s = NoRow
  BY <1>2, <1>3 DEF SamePair, LIVE_RFQ_STATUSES, LiveRows
<1>4. CASE s # NoRow
  <2>1. m # NoRow /\ ToDb(m.status) = s.status
    BY <1>4 DEF SamePair
  <2>2. m.status \in LIVE_RFQ_STATUSES <=> s.status \in LiveRows
    BY <1>1, <2>1 DEF ToDb, LIVE_RFQ_STATUSES, LiveRows
  <2> QED BY <1>4, <2>1, <2>2
<1> QED BY <1>3, <1>4

LEMMA RequestsInvImplies == ASSUME RequestsInv PROVE RequestsTypeOK /\ RequestsAgree
<1>1. RequestsTypeOK
  BY DEF RequestsInv
<1>2. ASSUME ~apart PROVE RequestsAgree
  <2>1. TablesAgree
    BY <1>2 DEF RequestsInv
  <2>2. ASSUME NEW r \in Rfqs PROVE SameRfq(r)
    <3>1. SamePair(mem.row[r], sql[r])
      BY <2>1 DEF TablesAgree
    <3>2. CASE sql[r] = NoRow
      BY <3>1, <3>2 DEF SamePair, SameRfq
    <3>3. CASE sql[r] # NoRow
      <4>1. /\ mem.row[r] # NoRow /\ ToDb(mem.row[r].status) = sql[r].status
            /\ mem.row[r].until = sql[r].until /\ mem.row[r].born = sql[r].born
            /\ mem.row[r].paused = sql[r].paused /\ mem.row[r].rungs = sql[r].rungs
        BY <3>1, <3>3 DEF SamePair
      <4>2. ASSUME NEW f \in {"until", "born", "paused", "rungs"} PROVE mem.row[r][f] = sql[r][f]
        <5>1. CASE f = "until"
          BY <4>1, <5>1
        <5>2. CASE f = "born"
          BY <4>1, <5>2
        <5>3. CASE f = "paused"
          BY <4>1, <5>3
        <5>4. CASE f = "rungs"
          BY <4>1, <5>4
        <5> QED BY <4>2, <5>1, <5>2, <5>3, <5>4
      <4> QED BY <3>3, <4>1, <4>2 DEF SameRfq
    <3> QED BY <3>2, <3>3
  <2>3. ASSUME NEW k \in Keys PROVE MemByKey(k) = SqlByKey(k)
    <3>1. ASSUME NEW x \in MemByKey(k) PROVE x \in SqlByKey(k)
      <4>1. mem.dedupe[k] = x /\ x # NoRfq /\ MemLive(x)
        BY <3>1 DEF MemByKey
      <4>2. x \in Rfqs
        BY <4>1 DEF RequestsInv, RequestsTypeOK
      <4>3. SqlLive(x)
        BY <2>1, <4>1, <4>2, RowsRead, PairsLive DEF TablesAgree, MemLive, SqlLive
      <4> QED BY <2>1, <4>1, <4>2, <4>3 DEF TablesAgree, HoldersKeep, SqlByKey
    <3>2. ASSUME NEW x \in SqlByKey(k) PROVE x \in MemByKey(k)
      <4>1. x \in Rfqs /\ SqlLive(x) /\ sql[x].key = k
        BY <3>2 DEF SqlByKey
      <4>2. MemLive(x)
        BY <2>1, <4>1, RowsRead, PairsLive DEF TablesAgree, MemLive, SqlLive
      <4>3. mem.dedupe[k] = x /\ x # NoRfq
        BY <2>1, <4>1, RequestsAssumption DEF TablesAgree, LiveHold
      <4> QED BY <4>2, <4>3 DEF MemByKey
    <3> QED BY <3>1, <3>2
  <2> QED BY <2>1, <2>2, <2>3 DEF RequestsAgree, TablesAgree
<1> QED BY <1>1, <1>2 DEF RequestsAgree

\* Both refuse a key for the same requests.
LEMMA TwinsAgree ==
    ASSUME RequestsInv, ~apart, NEW r \in Rfqs, NEW k \in Keys
    PROVE  MemTwin(k, r) <=> SqlTwin(k, r)
<1>1. TablesAgree
  BY DEF RequestsInv
<1>2. \A x \in Rfqs : MemLive(x) <=> SqlLive(x)
  BY <1>1, RowsRead, PairsLive DEF TablesAgree, MemLive, SqlLive
<1>3. ASSUME MemTwin(k, r) PROVE SqlTwin(k, r)
  <2> DEFINE x == mem.dedupe[k]
  <2>1. x \notin {NoRfq, r} /\ MemLive(x) /\ x \in Rfqs
    BY <1>3 DEF MemTwin, RequestsInv, RequestsTypeOK
  <2>2. sql[x].key = k
    BY <1>1, <2>1 DEF TablesAgree, HoldersKeep
  <2> QED BY <1>2, <2>1, <2>2 DEF SqlTwin
<1>4. ASSUME SqlTwin(k, r) PROVE MemTwin(k, r)
  <2>1. PICK x \in Rfqs \ {r} : SqlLive(x) /\ sql[x].key = k
    BY <1>4 DEF SqlTwin
  <2>2. mem.dedupe[k] = x
    BY <1>1, <2>1 DEF TablesAgree, LiveHold
  <2> QED BY <1>2, <2>1, <2>2, RequestsAssumption DEF MemTwin
<1> QED BY <1>3, <1>4

\* What a call leaves, when the two answer alike.
LEMMA BothReplied ==
    ASSUME NEW m, NEW s, NEW k, NEW h, NEW a, NEW b,
           Both(m, s), m = Reply(k, a), s = Reply(h, b), a = b
    PROVE  mem' = k /\ sql' = h /\ said' /\ today' = today
BY DEF Both, Reply

LEMMA BothRefused ==
    ASSUME RequestsInv, mem' = mem, sql' = sql, said', today' = today, apart' = apart
    PROVE  RequestsInv'
BY DEF RequestsInv, RequestsTypeOK, TablesAgree, HoldersKeep, LiveHold, SqlLive

\* One row rewritten in both, the keys left alone.
LEMMA RowRewritten ==
    ASSUME RequestsInv, ~apart, NEW r \in Rfqs, NEW x \in MemRfq, NEW y \in SqlRfq,
           SamePair(x, y), sql[r] # NoRow, y.key = sql[r].key,
           y.status \in LiveRows => mem.dedupe[y.key] = r,
           mem' = [mem EXCEPT !.row[r] = x], sql' = [sql EXCEPT ![r] = y],
           said', today' = today, apart' = apart
    PROVE  RequestsInv'
<1>1. /\ RequestsTypeOK /\ TablesAgree
      /\ mem.row \in [Rfqs -> MemRfq \cup {NoRow}] /\ mem.dedupe \in [Keys -> Rfqs \cup {NoRfq}]
      /\ sql \in [Rfqs -> SqlRfq \cup {NoRow}]
  BY DEF RequestsInv, RequestsTypeOK
<1>2. mem'.row = [mem.row EXCEPT ![r] = x] /\ mem'.dedupe = mem.dedupe
  BY <1>1 DEF RequestsTypeOK
<1>3. RequestsTypeOK'
  BY <1>1 DEF RequestsTypeOK
<1>4. \A q \in Rfqs : SamePair(mem'.row[q], sql'[q])
  BY <1>1, <1>2 DEF TablesAgree
<1>5. y # NoRow
  BY DEF SqlRfq, NoRow, LiveRows
<1>6. HoldersKeep'
  <2>1. ASSUME NEW k \in Keys, mem'.dedupe[k] # NoRfq
        PROVE  sql'[mem'.dedupe[k]] # NoRow /\ sql'[mem'.dedupe[k]].key = k
    <3> DEFINE q == mem.dedupe[k]
    <3>1. q \in Rfqs /\ mem'.dedupe[k] = q /\ sql[q] # NoRow /\ sql[q].key = k
      BY <1>1, <1>2, <2>1 DEF TablesAgree, HoldersKeep
    <3> HIDE DEF q
    <3> QED BY <1>1, <1>5, <3>1
  <2> QED BY <2>1 DEF HoldersKeep
<1>7. LiveHold'
  <2>1. ASSUME NEW q \in Rfqs, sql'[q].status \in LiveRows PROVE mem'.dedupe[sql'[q].key] = q
    BY <1>1, <1>2, <2>1 DEF TablesAgree, LiveHold, SqlLive
  <2> QED BY <2>1 DEF LiveHold, SqlLive
<1> QED BY <1>3, <1>4, <1>6, <1>7 DEF RequestsInv, TablesAgree

\* Rows that leave the live statuses together.
LEMMA RowsFlipped ==
    ASSUME RequestsInv, ~apart, NEW flipped \in SUBSET Rfqs,
           NEW to \in {"closed", "expired"},
           \A r \in flipped : SqlLive(r),
           mem' = [mem EXCEPT !.row = [r \in Rfqs |->
                     IF r \in flipped THEN [mem.row[r] EXCEPT !.status = to] ELSE mem.row[r]]],
           sql' = [r \in Rfqs |-> IF r \in flipped THEN [sql[r] EXCEPT !.status = "closed"] ELSE sql[r]],
           said', today' = today, apart' = apart
    PROVE  RequestsInv'
<1> DEFINE x(r) == [mem.row[r] EXCEPT !.status = to]
           y(r) == [sql[r] EXCEPT !.status = "closed"]
<1>1. /\ RequestsTypeOK /\ TablesAgree
      /\ mem.row \in [Rfqs -> MemRfq \cup {NoRow}] /\ mem.dedupe \in [Keys -> Rfqs \cup {NoRfq}]
      /\ sql \in [Rfqs -> SqlRfq \cup {NoRow}]
  BY DEF RequestsInv, RequestsTypeOK
<1>2. /\ mem'.dedupe = mem.dedupe
      /\ mem'.row = [r \in Rfqs |-> IF r \in flipped THEN x(r) ELSE mem.row[r]]
      /\ mem' = [row |-> mem'.row, dedupe |-> mem'.dedupe]
  BY <1>1 DEF RequestsTypeOK
<1>3. ASSUME NEW r \in flipped
      PROVE  /\ x(r) \in MemRfq /\ y(r) \in SqlRfq /\ SamePair(x(r), y(r))
             /\ y(r) # NoRow /\ y(r).key = sql[r].key /\ y(r).status \notin LiveRows
  <2>1. SamePair(mem.row[r], sql[r]) /\ sql[r].status \in LiveRows
    BY <1>1 DEF TablesAgree, SqlLive
  <2>2. mem.row[r] \in MemRfq /\ sql[r] \in SqlRfq /\ sql[r] # NoRow
    <3>1. sql[r] # NoRow
      BY <2>1 DEF NoRow, LiveRows
    <3>2. mem.row[r] # NoRow
      BY <2>1, <3>1 DEF SamePair
    <3> QED BY <1>1, <3>1, <3>2
  <2>3. x(r) \in MemRfq
    BY <2>2 DEF MemRfq
  <2>4. y(r) \in SqlRfq
    BY <2>2 DEF SqlRfq
  <2>5. y(r) # NoRow /\ x(r) # NoRow
    BY <2>3, <2>4 DEF NoRow, SqlRfq, MemRfq, LiveRows, LIVE_RFQ_STATUSES
  <2>6. x(r).status = to /\ y(r).status = "closed" /\ ToDb(to) = "closed"
    BY <2>2 DEF MemRfq, SqlRfq, ToDb
  <2>7. /\ x(r).until = y(r).until /\ x(r).born = y(r).born
        /\ x(r).paused = y(r).paused /\ x(r).rungs = y(r).rungs
    BY <2>1, <2>2 DEF MemRfq, SqlRfq, SamePair
  <2>8. SamePair(x(r), y(r))
    BY <2>5, <2>6, <2>7 DEF SamePair
  <2>9. y(r).key = sql[r].key
    BY <2>2 DEF SqlRfq
  <2>10. y(r).status \notin LiveRows
    BY <2>6 DEF LiveRows
  <2> QED BY <2>3, <2>4, <2>5, <2>8, <2>9, <2>10
<1>4. \A r \in Rfqs : sql'[r] = IF r \in flipped THEN y(r) ELSE sql[r]
  OBVIOUS
<1> HIDE DEF x, y
<1>5. RequestsTypeOK'
  <2>1. mem'.row \in [Rfqs -> MemRfq \cup {NoRow}]
    BY <1>1, <1>2, <1>3
  <2>2. sql' \in [Rfqs -> SqlRfq \cup {NoRow}]
    BY <1>1, <1>3 DEF y
  <2> QED BY <1>1, <1>2, <2>1, <2>2 DEF RequestsTypeOK
<1>6. \A q \in Rfqs : SamePair(mem'.row[q], sql'[q])
  BY <1>1, <1>2, <1>3, <1>4 DEF TablesAgree
<1>7. HoldersKeep'
  <2>1. ASSUME NEW k \in Keys, mem'.dedupe[k] # NoRfq
        PROVE  sql'[mem'.dedupe[k]] # NoRow /\ sql'[mem'.dedupe[k]].key = k
    <3> DEFINE q == mem.dedupe[k]
    <3>1. q \in Rfqs /\ mem'.dedupe[k] = q /\ sql[q] # NoRow /\ sql[q].key = k
      BY <1>1, <1>2, <2>1 DEF TablesAgree, HoldersKeep
    <3> HIDE DEF q
    <3> QED BY <1>3, <1>4, <3>1
  <2> QED BY <2>1 DEF HoldersKeep
<1>8. LiveHold'
  <2>1. ASSUME NEW q \in Rfqs, sql'[q].status \in LiveRows PROVE mem'.dedupe[sql'[q].key] = q
    <3>1. q \notin flipped /\ sql'[q] = sql[q]
      BY <1>3, <1>4, <2>1
    <3> QED BY <1>1, <1>2, <2>1, <3>1 DEF TablesAgree, LiveHold, SqlLive
  <2> QED BY <2>1 DEF LiveHold, SqlLive
<1> QED BY <1>5, <1>6, <1>7, <1>8 DEF RequestsInv, TablesAgree

\* A row written together with the key it claims; the keys it held before are
\* dropped.  No other live request holds the key.
LEMMA KeyClaimed ==
    ASSUME RequestsInv, ~apart, NEW r \in Rfqs, NEW k \in Keys, NEW x \in MemRfq, NEW y \in SqlRfq,
           SamePair(x, y), y.key = k, ~SqlTwin(k, r), NEW keys \in [Keys -> Rfqs \cup {NoRfq}],
           keys[k] = r,
           \A c \in Keys \ {k} : keys[c] # r /\ keys[c] \in {mem.dedupe[c], NoRfq},
           \A c \in Keys \ {k} : mem.dedupe[c] # r => keys[c] = mem.dedupe[c],
           mem' = [row |-> [mem.row EXCEPT ![r] = x], dedupe |-> keys],
           sql' = [sql EXCEPT ![r] = y],
           said', today' = today, apart' = apart
    PROVE  RequestsInv'
<1>1. /\ RequestsTypeOK /\ TablesAgree
      /\ mem.row \in [Rfqs -> MemRfq \cup {NoRow}] /\ mem.dedupe \in [Keys -> Rfqs \cup {NoRfq}]
      /\ sql \in [Rfqs -> SqlRfq \cup {NoRow}]
  BY DEF RequestsInv, RequestsTypeOK
<1>2. mem'.row = [mem.row EXCEPT ![r] = x] /\ mem'.dedupe = keys
  OBVIOUS
<1>3. RequestsTypeOK'
  BY <1>1 DEF RequestsTypeOK
<1>4. \A q \in Rfqs : SamePair(mem'.row[q], sql'[q])
  BY <1>1, <1>2 DEF TablesAgree
<1>5. y # NoRow
  BY DEF SqlRfq, NoRow, LiveRows
<1>6. HoldersKeep'
  <2>1. ASSUME NEW c \in Keys, keys[c] # NoRfq PROVE sql'[keys[c]] # NoRow /\ sql'[keys[c]].key = c
    <3>1. CASE c = k
      BY <1>1, <1>5, <3>1
    <3>2. CASE c # k
      <4> DEFINE q == keys[c]
      <4>1. q # r /\ q = mem.dedupe[c] /\ q \in Rfqs
        BY <1>1, <2>1, <3>2
      <4>2. sql[q] # NoRow /\ sql[q].key = c
        BY <1>1, <2>1, <4>1 DEF TablesAgree, HoldersKeep
      <4> HIDE DEF q
      <4>3. sql'[q] = sql[q]
        BY <1>1, <4>1
      <4> QED BY <4>2, <4>3 DEF q
    <3> QED BY <3>1, <3>2
  <2> QED BY <1>2, <2>1 DEF HoldersKeep
<1>7. LiveHold'
  <2>1. ASSUME NEW q \in Rfqs, sql'[q].status \in LiveRows PROVE keys[sql'[q].key] = q
    <3>1. CASE q = r
      BY <1>1, <3>1
    <3>2. CASE q # r
      <4>1. sql'[q] = sql[q] /\ SqlLive(q)
        BY <1>1, <2>1, <3>2 DEF SqlLive
      <4>2. sql[q].key # k
        BY <3>2, <4>1 DEF SqlTwin
      <4>3. sql[q] \in SqlRfq
        BY <1>1, <4>1 DEF SqlLive, NoRow, LiveRows
      <4>4. sql[q].key \in Keys
        BY <4>3 DEF SqlRfq
      <4>5. mem.dedupe[sql[q].key] = q
        BY <1>1, <4>1 DEF TablesAgree, LiveHold
      <4> QED BY <3>2, <4>1, <4>2, <4>4, <4>5
    <3> QED BY <3>1, <3>2
  <2> QED BY <1>2, <2>1 DEF LiveHold, SqlLive
<1> QED BY <1>3, <1>4, <1>6, <1>7 DEF RequestsInv, TablesAgree

LEMMA RequestCreated ==
    ASSUME RequestsInv, ~apart, NEW r \in Rfqs, NEW k \in Keys, NEW u \in Dates, CreateRfq(r, k, u)
    PROVE  RequestsInv'
<1> DEFINE x == [status |-> "open", until |-> u, born |-> today, paused |-> FALSE, rungs |-> 0]
           y == [status |-> "new", until |-> u, born |-> today, paused |-> FALSE, rungs |-> 0, key |-> k]
           keys == [mem.dedupe EXCEPT ![k] = r]
           kept_ == [MemSet(r, x) EXCEPT !.dedupe[k] = r]
<1>1. /\ mem.row[r] = NoRow /\ apart' = apart
      /\ Both(MemCreateRfq(r, k, u), SqlCreateRfq(r, k, u))
  BY DEF CreateRfq, Exists
<1>2. /\ RequestsTypeOK /\ TablesAgree /\ today \in 0 .. MaxDay
      /\ mem.row \in [Rfqs -> MemRfq \cup {NoRow}] /\ mem.dedupe \in [Keys -> Rfqs \cup {NoRfq}]
      /\ sql \in [Rfqs -> SqlRfq \cup {NoRow}]
  BY DEF RequestsInv, RequestsTypeOK
<1>3. CASE MemTwin(k, r)
  <2>1. MemCreateRfq(r, k, u) = Reply(mem, "duplicate")
    BY <1>3, Zenon DEF MemCreateRfq
  <2>2. SqlCreateRfq(r, k, u) = Reply(sql, "duplicate")
    <3>1. SqlTwin(k, r)
      BY <1>3, TwinsAgree
    <3> QED BY <3>1, Zenon DEF SqlCreateRfq
  <2>3. mem' = mem /\ sql' = sql /\ said' /\ today' = today
    BY <1>1, <2>1, <2>2, BothReplied
  <2> QED BY <1>1, <2>3, BothRefused
<1>4. CASE ~MemTwin(k, r)
  <2>1. ~SqlTwin(k, r)
    BY <1>4, TwinsAgree
  <2>2. MemCreateRfq(r, k, u) = Reply(kept_, "yes")
    BY <1>4, Zenon DEF MemCreateRfq
  <2>3. SqlCreateRfq(r, k, u) = Reply([sql EXCEPT ![r] = y], "yes")
    BY <2>1, Zenon DEF SqlCreateRfq, SqlSet
  <2>4. kept_ = [row |-> [mem.row EXCEPT ![r] = x], dedupe |-> keys]
    <3> HIDE DEF x
    <3>1. MemSet(r, x) = [row |-> [mem.row EXCEPT ![r] = x], dedupe |-> mem.dedupe]
      BY RowsRead DEF MemSet
    <3> QED BY <3>1
  <2>5. FALSE \in BOOLEAN /\ 0 \in 0 .. MaxEdits
    BY RequestsAssumption
  <2>6. x \in MemRfq
    BY <1>2, <2>5 DEF MemRfq, LIVE_RFQ_STATUSES
  <2>7. y \in SqlRfq
    BY <1>2, <2>5 DEF SqlRfq, LiveRows
  <2>8. SamePair(x, y) /\ y.key = k
    <3>1. x # NoRow /\ y # NoRow
      BY DEF NoRow
    <3> QED BY <3>1 DEF SamePair, ToDb
  <2>9. sql[r] = NoRow
    BY <1>1, <1>2 DEF TablesAgree, SamePair
  <2>10. /\ keys \in [Keys -> Rfqs \cup {NoRfq}] /\ keys[k] = r
         /\ \A c \in Keys \ {k} : keys[c] = mem.dedupe[c]
    BY <1>2
  <2>11. \A c \in Keys \ {k} : keys[c] # r
    BY <1>2, <2>9, <2>10, RequestsAssumption DEF TablesAgree, HoldersKeep
  <2>12. /\ \A c \in Keys \ {k} : keys[c] # r /\ keys[c] \in {mem.dedupe[c], NoRfq}
         /\ \A c \in Keys \ {k} : mem.dedupe[c] # r => keys[c] = mem.dedupe[c]
    BY <2>10, <2>11
  <2> HIDE DEF x, y, keys, kept_
  <2>13. mem' = kept_ /\ sql' = [sql EXCEPT ![r] = y] /\ said' /\ today' = today
    BY <1>1, <2>2, <2>3, BothReplied
  <2>14. mem' = [row |-> [mem.row EXCEPT ![r] = x], dedupe |-> keys]
    BY <2>4, <2>13
  <2> QED BY <1>1, <2>1, <2>6, <2>7, <2>8, <2>10, <2>13, <2>14, <2>12, KeyClaimed
<1> QED BY <1>3, <1>4

\* The re-key drops the keys the request held before: that is what keeps the map
\* in step with the index.
LEMMA RequestAmended ==
    ASSUME RequestsInv, ~apart, NEW r \in Rfqs, NEW k \in Keys, NEW u \in Dates,
           UpdateRfqFields(r, k, u)
    PROVE  RequestsInv'
<1> DEFINE m == mem.row[r]
           s == sql[r]
           x == [m EXCEPT !.until = u, !.rungs = @ + 1]
           y == [s EXCEPT !.until = u, !.rungs = @ + 1, !.key = k]
           keys == [c \in Keys |-> IF c = k THEN r ELSE IF mem.dedupe[c] = r THEN NoRfq ELSE mem.dedupe[c]]
           kept_ == [mem EXCEPT !.row[r].until = u, !.row[r].rungs = @ + 1,
                                !.dedupe = [c \in Keys |-> IF c = k THEN r
                                                           ELSE IF @[c] = r THEN NoRfq
                                                           ELSE @[c]]]
           held_ == [sql EXCEPT ![r].until = u, ![r].rungs = @ + 1, ![r].key = k]
<1>1. /\ m # NoRow /\ m.rungs < MaxEdits /\ apart' = apart
      /\ Both(MemAmend(r, k, u), SqlAmend(r, k, u))
  BY DEF UpdateRfqFields, Exists
<1>2. /\ RequestsTypeOK /\ TablesAgree
      /\ mem.row \in [Rfqs -> MemRfq \cup {NoRow}] /\ mem.dedupe \in [Keys -> Rfqs \cup {NoRfq}]
      /\ sql \in [Rfqs -> SqlRfq \cup {NoRow}]
  BY DEF RequestsInv, RequestsTypeOK
<1>3. /\ SamePair(m, s) /\ m \in MemRfq /\ s \in SqlRfq
      /\ MemLive(r) <=> SqlLive(r)
  <2>1. SamePair(m, s)
    BY <1>2 DEF TablesAgree
  <2>2. m \in MemRfq /\ s # NoRow
    BY <1>1, <1>2, <2>1 DEF SamePair
  <2> QED BY <1>2, <2>1, <2>2, RowsRead, PairsLive DEF MemLive, SqlLive
<1>4. CASE ~MemLive(r)
  <2>1. MemAmend(r, k, u) = Reply(mem, "no")
    BY <1>4, Zenon DEF MemAmend
  <2>2. SqlAmend(r, k, u) = Reply(sql, "no")
    <3>1. ~SqlLive(r)
      BY <1>3, <1>4
    <3> QED BY <3>1, Zenon DEF SqlAmend
  <2>3. mem' = mem /\ sql' = sql /\ said' /\ today' = today
    BY <1>1, <2>1, <2>2, BothReplied
  <2> QED BY <1>1, <2>3, BothRefused
<1>5. CASE MemLive(r) /\ MemTwin(k, r)
  <2>1. MemAmend(r, k, u) = Reply(mem, "duplicate")
    BY <1>5, Zenon DEF MemAmend
  <2>2. SqlAmend(r, k, u) = Reply(sql, "duplicate")
    <3>1. SqlLive(r) /\ SqlTwin(k, r)
      BY <1>3, <1>5, TwinsAgree
    <3> QED BY <3>1, Zenon DEF SqlAmend
  <2>3. mem' = mem /\ sql' = sql /\ said' /\ today' = today
    BY <1>1, <2>1, <2>2, BothReplied
  <2> QED BY <1>1, <2>3, BothRefused
<1>6. CASE MemLive(r) /\ ~MemTwin(k, r)
  <2>1. SqlLive(r) /\ ~SqlTwin(k, r)
    BY <1>3, <1>6, TwinsAgree
  <2>2. MemAmend(r, k, u) = Reply(kept_, "yes")
    BY <1>6, Zenon DEF MemAmend
  <2>3. SqlAmend(r, k, u) = Reply(held_, "yes")
    BY <2>1, Zenon DEF SqlAmend
  <2>4. kept_ = [row |-> [mem.row EXCEPT ![r] = x], dedupe |-> keys]
    <3> DEFINE z == [m EXCEPT !.until = u]
               dated == [mem EXCEPT !.row[r].until = u]
               counted == [dated EXCEPT !.row[r].rungs = m.rungs + 1]
    <3>1. dated = [row |-> [mem.row EXCEPT ![r] = z], dedupe |-> mem.dedupe]
      BY RowsRead
    <3>2. x = [z EXCEPT !.rungs = m.rungs + 1]
      OBVIOUS
    <3>3. kept_ = [counted EXCEPT !.dedupe = keys]
      OBVIOUS
    <3> HIDE DEF x, z, dated, kept_
    <3>4. counted = [row |-> [mem.row EXCEPT ![r] = x], dedupe |-> mem.dedupe]
      BY <1>2, <3>1, <3>2
    <3> HIDE DEF counted
    <3> QED BY <3>3, <3>4
  <2>5. held_ = [sql EXCEPT ![r] = y]
    BY <1>2, <1>3 DEF SqlRfq
  <2>6. m.rungs + 1 \in 0 .. MaxEdits /\ m.rungs = s.rungs
    <3>1. m.rungs \in 0 .. MaxEdits
      BY <1>3 DEF MemRfq
    <3>2. m.rungs = s.rungs
      BY <1>1, <1>3 DEF SamePair
    <3> QED BY <1>1, <3>1, <3>2, RequestsAssumption
  <2>7. x \in MemRfq
    BY <1>3, <2>6 DEF MemRfq
  <2>8. y \in SqlRfq /\ y.key = k
    BY <1>3, <2>6 DEF SqlRfq
  <2>9. SamePair(x, y)
    <3>1. x # NoRow /\ y # NoRow
      BY <2>7, <2>8 DEF MemRfq, SqlRfq, NoRow, LIVE_RFQ_STATUSES, LiveRows
    <3>2. x.status = m.status /\ y.status = s.status /\ ToDb(m.status) = s.status
      BY <1>1, <1>3 DEF MemRfq, SqlRfq, SamePair
    <3>3. x.until = y.until /\ x.born = y.born /\ x.paused = y.paused /\ x.rungs = y.rungs
      BY <1>1, <1>3, <2>6 DEF MemRfq, SqlRfq, SamePair
    <3> QED BY <3>1, <3>2, <3>3 DEF SamePair
  <2>10. /\ keys \in [Keys -> Rfqs \cup {NoRfq}] /\ keys[k] = r
    BY <1>2
  <2>11. /\ \A c \in Keys \ {k} : keys[c] # r /\ keys[c] \in {mem.dedupe[c], NoRfq}
         /\ \A c \in Keys \ {k} : mem.dedupe[c] # r => keys[c] = mem.dedupe[c]
    BY <1>2, RequestsAssumption
  <2> HIDE DEF x, y, keys, kept_, held_
  <2>12. mem' = kept_ /\ sql' = held_ /\ said' /\ today' = today
    BY <1>1, <2>2, <2>3, BothReplied
  <2>13. /\ mem' = [row |-> [mem.row EXCEPT ![r] = x], dedupe |-> keys]
         /\ sql' = [sql EXCEPT ![r] = y]
    BY <2>4, <2>5, <2>12
  <2>14. ~SqlTwin(k, r) /\ said' /\ today' = today /\ apart' = apart
    BY <1>1, <2>1, <2>12
  <2> QED BY <2>7, <2>8, <2>9, <2>10, <2>13, <2>11, <2>14, KeyClaimed
<1> QED BY <1>4, <1>5, <1>6

\* What both read of an existing row.
LEMMA RowExists ==
    ASSUME RequestsInv, ~apart, NEW r \in Rfqs, Exists(r)
    PROVE  /\ mem.row[r] \in MemRfq /\ sql[r] \in SqlRfq /\ sql[r] # NoRow
           /\ SamePair(mem.row[r], sql[r]) /\ ToDb(mem.row[r].status) = sql[r].status
           /\ mem.row[r].paused = sql[r].paused
           /\ MemLive(r) <=> SqlLive(r)
           /\ sql[r].key \in Keys
           /\ SqlLive(r) => mem.dedupe[sql[r].key] = r
<1>1. /\ mem.row[r] \in MemRfq \cup {NoRow} /\ sql[r] \in SqlRfq \cup {NoRow}
      /\ SamePair(mem.row[r], sql[r]) /\ LiveHold /\ mem.row[r] # NoRow
  BY DEF RequestsInv, RequestsTypeOK, TablesAgree, Exists
<1>2. mem.row[r] \in MemRfq /\ sql[r] # NoRow /\ sql[r] \in SqlRfq
  BY <1>1 DEF SamePair
<1>3. MemLive(r) <=> SqlLive(r)
  BY <1>1, PairsLive DEF MemLive, SqlLive
<1>4. sql[r].key \in Keys
  BY <1>2 DEF SqlRfq
<1>5. ToDb(mem.row[r].status) = sql[r].status /\ mem.row[r].paused = sql[r].paused
  BY <1>1, <1>2 DEF SamePair
<1> QED BY <1>1, <1>2, <1>3, <1>4, <1>5 DEF LiveHold

\* A status written in both, the new one in the words of each.
LEMMA StatusPair ==
    ASSUME NEW m \in MemRfq, NEW s \in SqlRfq, SamePair(m, s),
           NEW to \in {"closed", "spam", "open", "quoted"}
    PROVE  /\ [m EXCEPT !.status = to] \in MemRfq
           /\ [s EXCEPT !.status = ToDb(to)] \in SqlRfq
           /\ SamePair([m EXCEPT !.status = to], [s EXCEPT !.status = ToDb(to)])
           /\ [s EXCEPT !.status = ToDb(to)].key = s.key
           /\ [s EXCEPT !.status = ToDb(to)].status = ToDb(to)
<1> DEFINE x == [m EXCEPT !.status = to]
           y == [s EXCEPT !.status = ToDb(to)]
<1>1. x \in MemRfq
  BY DEF MemRfq, LIVE_RFQ_STATUSES
<1>2. ToDb(to) \in LiveRows \cup {"closed", "spam"}
  BY DEF ToDb, LiveRows
<1>3. y \in SqlRfq /\ y.key = s.key /\ y.status = ToDb(to)
  BY <1>2 DEF SqlRfq
<1>4. x # NoRow /\ y # NoRow /\ s # NoRow
  BY <1>1, <1>3 DEF MemRfq, SqlRfq, NoRow, LIVE_RFQ_STATUSES, LiveRows
<1>5. /\ x.status = to /\ x.until = y.until /\ x.born = y.born
      /\ x.paused = y.paused /\ x.rungs = y.rungs
  BY <1>4 DEF MemRfq, SqlRfq, SamePair
<1>6. SamePair(x, y)
  BY <1>3, <1>4, <1>5 DEF SamePair
<1> QED BY <1>1, <1>3, <1>6

LEMMA StatusWritten ==
    ASSUME RequestsInv, ~apart, NEW r \in Rfqs, Exists(r), apart' = apart,
           NEW to \in {"closed", "spam", "open", "quoted"},
           ToDb(to) \in LiveRows => mem.dedupe[sql[r].key] = r,
           Both(Reply([mem EXCEPT !.row[r].status = to], "yes"),
                Reply([sql EXCEPT ![r].status = ToDb(to)], "yes"))
    PROVE  RequestsInv'
<1> DEFINE x == [mem.row[r] EXCEPT !.status = to]
           y == [sql[r] EXCEPT !.status = ToDb(to)]
<1>1. /\ mem.row[r] \in MemRfq /\ sql[r] \in SqlRfq /\ sql[r] # NoRow
      /\ SamePair(mem.row[r], sql[r])
  BY RowExists
<1>2. x \in MemRfq /\ y \in SqlRfq /\ SamePair(x, y) /\ y.key = sql[r].key /\ y.status = ToDb(to)
  <2>1. x \in MemRfq /\ y \in SqlRfq
    BY <1>1, StatusPair
  <2>2. SamePair(x, y)
    BY <1>1, StatusPair
  <2>3. y.key = sql[r].key /\ y.status = ToDb(to)
    BY <1>1, StatusPair
  <2> QED BY <2>1, <2>2, <2>3
<1>3. mem' = [mem EXCEPT !.row[r].status = to] /\ sql' = [sql EXCEPT ![r].status = ToDb(to)] /\ said' /\ today' = today
  BY BothReplied
<1>4. mem' = [mem EXCEPT !.row[r] = x] /\ sql' = [sql EXCEPT ![r] = y]
  BY <1>3
<1> HIDE DEF x, y
<1>5. y.status \in LiveRows => mem.dedupe[y.key] = r
  BY <1>2
<1> QED BY <1>1, <1>2, <1>3, <1>4, <1>5, RowRewritten

LEMMA TakenDown ==
    ASSUME RequestsInv, ~apart, NEW r \in Rfqs, NEW to \in {"closed", "spam"}, TakeDown(r, to)
    PROVE  RequestsInv'
<1>1. /\ Exists(r) /\ apart' = apart
      /\ Both(MemSetRfqStatus(r, to, LIVE_RFQ_STATUSES), SqlSetRfqStatus(r, to, LIVE_RFQ_STATUSES))
  BY DEF TakeDown
<1>2. {ToDb(e) : e \in LIVE_RFQ_STATUSES} = LiveRows
  BY DEF ToDb, LIVE_RFQ_STATUSES, LiveRows
<1>3. ToDb(to) \notin LiveRows
  BY DEF ToDb, LiveRows
<1>4. mem.row[r].status \in LIVE_RFQ_STATUSES <=> sql[r].status \in LiveRows
  BY <1>1, RowExists DEF MemLive, SqlLive
<1>5. CASE mem.row[r].status \notin LIVE_RFQ_STATUSES
  <2>1. MemSetRfqStatus(r, to, LIVE_RFQ_STATUSES) = Reply(mem, "no")
    BY <1>5, Zenon DEF MemSetRfqStatus
  <2>2. SqlSetRfqStatus(r, to, LIVE_RFQ_STATUSES) = Reply(sql, "no")
    <3>1. sql[r].status \notin {ToDb(e) : e \in LIVE_RFQ_STATUSES}
      BY <1>2, <1>4, <1>5
    <3> QED BY <3>1, Zenon DEF SqlSetRfqStatus
  <2>3. mem' = mem /\ sql' = sql /\ said' /\ today' = today
    BY <1>1, <2>1, <2>2, BothReplied
  <2> QED BY <1>1, <2>3, BothRefused
<1>6. CASE mem.row[r].status \in LIVE_RFQ_STATUSES
  <2>1. MemSetRfqStatus(r, to, LIVE_RFQ_STATUSES) = Reply([mem EXCEPT !.row[r].status = to], "yes")
    BY <1>6, Zenon DEF MemSetRfqStatus
  <2>2. SqlSetRfqStatus(r, to, LIVE_RFQ_STATUSES) = Reply([sql EXCEPT ![r].status = ToDb(to)], "yes")
    <3>1. sql[r].status \in {ToDb(e) : e \in LIVE_RFQ_STATUSES}
      BY <1>2, <1>4, <1>6
    <3> QED BY <1>3, <3>1, Zenon DEF SqlSetRfqStatus
  <2>3. Both(Reply([mem EXCEPT !.row[r].status = to], "yes"), Reply([sql EXCEPT ![r].status = ToDb(to)], "yes"))
    BY <1>1, <2>1, <2>2, Zenon
  <2> QED BY <1>1, <1>3, <2>3, StatusWritten
<1> QED BY <1>5, <1>6

\* A request comes back under the key it had.  When another has claimed it the
\* comparison ends; when the map still has it, no other live row can.
LEMMA Revived ==
    ASSUME RequestsInv, ~apart, NEW r \in Rfqs, NEW to \in {"open", "quoted"}, Revive(r, to)
    PROVE  RequestsInv'
<1> DEFINE down == mem.row[r].status = "closed"
           lost == mem.dedupe[sql[r].key] # r
<1>1. /\ Exists(r) /\ mem.row[r].status # "expired" /\ apart' = (down /\ lost)
      /\ Both(MemSetRfqStatus(r, to, {"closed"}), SqlSetRfqStatus(r, to, {"closed"}))
  BY DEF Revive
<1>2. /\ mem.row[r] \in MemRfq /\ sql[r] \in SqlRfq /\ sql[r] # NoRow
      /\ SamePair(mem.row[r], sql[r]) /\ ToDb(mem.row[r].status) = sql[r].status /\ sql[r].key \in Keys
  BY <1>1, RowExists
<1>3. {ToDb(e) : e \in {"closed"}} = {"closed"} /\ ToDb(to) \in LiveRows
  BY DEF ToDb, LiveRows
<1>4. down <=> sql[r].status = "closed"
  BY <1>1, <1>2 DEF ToDb, MemRfq, LIVE_RFQ_STATUSES
<1>5. CASE ~down
  <2>1. MemSetRfqStatus(r, to, {"closed"}) = Reply(mem, "no")
    <3>1. mem.row[r].status \notin {"closed"}
      BY <1>5
    <3> QED BY <3>1, Zenon DEF MemSetRfqStatus
  <2>2. SqlSetRfqStatus(r, to, {"closed"}) = Reply(sql, "no")
    <3>1. sql[r].status \notin {ToDb(e) : e \in {"closed"}}
      BY <1>3, <1>4, <1>5
    <3> QED BY <3>1, Zenon DEF SqlSetRfqStatus
  <2>3. mem' = mem /\ sql' = sql /\ said' /\ today' = today
    BY <1>1, <2>1, <2>2, BothReplied
  <2>4. apart' = apart
    BY <1>1, <1>5 DEF RequestsInv, RequestsTypeOK
  <2> QED BY <2>3, <2>4, BothRefused
<1>6. CASE down /\ ~lost
  <2>1. MemSetRfqStatus(r, to, {"closed"}) = Reply([mem EXCEPT !.row[r].status = to], "yes")
    <3>1. mem.row[r].status \in {"closed"}
      BY <1>6
    <3> QED BY <3>1, Zenon DEF MemSetRfqStatus
  <2>2. ~SqlTwin(sql[r].key, r)
    <3>1. ~MemTwin(sql[r].key, r)
      BY <1>6 DEF MemTwin
    <3> QED BY <1>2, <3>1, TwinsAgree
  <2>3. SqlSetRfqStatus(r, to, {"closed"}) = Reply([sql EXCEPT ![r].status = ToDb(to)], "yes")
    <3>1. sql[r].status \in {ToDb(e) : e \in {"closed"}}
      BY <1>3, <1>4, <1>6
    <3> QED BY <2>2, <3>1, Zenon DEF SqlSetRfqStatus
  <2>4. apart' = apart
    BY <1>1, <1>6 DEF RequestsInv, RequestsTypeOK
  <2>5. Both(Reply([mem EXCEPT !.row[r].status = to], "yes"), Reply([sql EXCEPT ![r].status = ToDb(to)], "yes"))
    BY <1>1, <2>1, <2>3, Zenon
  <2> QED BY <1>1, <1>6, <2>4, <2>5, StatusWritten
<1>7. CASE down /\ lost
  <2>1. apart' \in BOOLEAN /\ apart'
    BY <1>1, <1>7
  <2>2. mem' = mem \/ mem' = [mem EXCEPT !.row[r].status = to]
    BY <1>1 DEF Both, MemSetRfqStatus, Reply
  <2>3. sql' = sql \/ sql' = [sql EXCEPT ![r].status = ToDb(to)]
    BY <1>1 DEF Both, SqlSetRfqStatus, Reply
  <2>4. [mem.row[r] EXCEPT !.status = to] \in MemRfq /\ [sql[r] EXCEPT !.status = ToDb(to)] \in SqlRfq
    BY <1>2, StatusPair
  <2>5. today' = today
    BY <1>1 DEF Both
  <2>6. RequestsTypeOK'
    BY <2>1, <2>2, <2>3, <2>4, <2>5 DEF RequestsInv, RequestsTypeOK
  <2> QED BY <2>1, <2>6 DEF RequestsInv
<1> QED BY <1>5, <1>6, <1>7

LEMMA Extended ==
    ASSUME RequestsInv, ~apart, NEW r \in Rfqs, NEW u \in 0 .. MaxDay, ExtendRfqDeadline(r, u)
    PROVE  RequestsInv'
<1> DEFINE x == [mem.row[r] EXCEPT !.until = u]
           y == [sql[r] EXCEPT !.until = u]
<1>1. Exists(r) /\ apart' = apart /\ Both(MemExtend(r, u), SqlExtend(r, u))
  BY DEF ExtendRfqDeadline
<1>2. /\ mem.row[r] \in MemRfq /\ sql[r] \in SqlRfq /\ sql[r] # NoRow
      /\ SamePair(mem.row[r], sql[r])
      /\ MemLive(r) <=> SqlLive(r)
      /\ SqlLive(r) => mem.dedupe[sql[r].key] = r
  BY <1>1, RowExists
<1>3. CASE ~MemLive(r)
  <2>1. MemExtend(r, u) = Reply(mem, "no") /\ SqlExtend(r, u) = Reply(sql, "no")
    BY <1>2, <1>3 DEF MemExtend, SqlExtend
  <2>2. mem' = mem /\ sql' = sql /\ said' /\ today' = today
    BY <1>1, <2>1, BothReplied
  <2> QED BY <1>1, <2>2, BothRefused
<1>4. CASE MemLive(r)
  <2>1. MemExtend(r, u) = Reply([mem EXCEPT !.row[r] = x], "yes")
    BY <1>4 DEF MemExtend
  <2>2. SqlExtend(r, u) = Reply([sql EXCEPT ![r] = y], "yes")
    BY <1>2, <1>4 DEF SqlExtend
  <2>3. x \in MemRfq /\ y \in SqlRfq /\ y.key = sql[r].key
    <3>1. u \in Dates
      BY RequestsAssumption DEF Dates, Undated
    <3> QED BY <1>2, <3>1 DEF MemRfq, SqlRfq
  <2>4. SamePair(x, y)
    <3>1. x # NoRow /\ y # NoRow
      BY <2>3 DEF MemRfq, SqlRfq, NoRow, LIVE_RFQ_STATUSES, LiveRows
    <3>2. /\ ToDb(x.status) = y.status /\ x.until = y.until /\ x.born = y.born
          /\ x.paused = y.paused /\ x.rungs = y.rungs
      BY <1>2 DEF MemRfq, SqlRfq, SamePair
    <3> QED BY <3>1, <3>2 DEF SamePair
  <2> HIDE DEF x, y
  <2>5. mem' = [mem EXCEPT !.row[r] = x] /\ sql' = [sql EXCEPT ![r] = y] /\ said' /\ today' = today
    BY <1>1, <2>1, <2>2, BothReplied
  <2>6. mem.dedupe[y.key] = r
    BY <1>2, <1>4, <2>3
  <2> QED BY <1>1, <1>2, <2>3, <2>4, <2>5, <2>6, RowRewritten
<1> QED BY <1>3, <1>4

LEMMA PauseSet ==
    ASSUME RequestsInv, ~apart, NEW r \in Rfqs, NEW p \in BOOLEAN, SetRfqPaused(r, p)
    PROVE  RequestsInv'
<1> DEFINE x == [mem.row[r] EXCEPT !.paused = p]
           y == [sql[r] EXCEPT !.paused = p]
           ok == IF p THEN MemLive(r) /\ ~mem.row[r].paused ELSE mem.row[r].paused
           sqlOk == IF p THEN SqlLive(r) /\ ~sql[r].paused ELSE sql[r].paused
<1>1. Exists(r) /\ apart' = apart /\ Both(MemSetPaused(r, p), SqlSetPaused(r, p))
  BY DEF SetRfqPaused
<1>2. /\ mem.row[r] \in MemRfq /\ sql[r] \in SqlRfq /\ sql[r] # NoRow
      /\ SamePair(mem.row[r], sql[r])
      /\ MemLive(r) <=> SqlLive(r)
      /\ mem.row[r].paused = sql[r].paused
      /\ SqlLive(r) => mem.dedupe[sql[r].key] = r
  BY <1>1, RowExists
<1>3. ok <=> sqlOk
  BY <1>2
<1>4. MemSetPaused(r, p) = IF ok THEN Reply([mem EXCEPT !.row[r].paused = p], "yes") ELSE Reply(mem, "no")
  BY Zenon DEF MemSetPaused
<1>5. SqlSetPaused(r, p) = IF sqlOk THEN Reply([sql EXCEPT ![r].paused = p], "yes") ELSE Reply(sql, "no")
  BY Zenon DEF SqlSetPaused
<1>6. [mem EXCEPT !.row[r].paused = p] = [mem EXCEPT !.row[r] = x] /\ [sql EXCEPT ![r].paused = p] = [sql EXCEPT ![r] = y]
  OBVIOUS
<1>7. x \in MemRfq /\ y \in SqlRfq
  BY <1>2 DEF MemRfq, SqlRfq
<1>8. /\ y.key = sql[r].key /\ y.status = sql[r].status /\ x.status = mem.row[r].status
      /\ x.until = y.until /\ x.born = y.born /\ x.rungs = y.rungs
  BY <1>2 DEF MemRfq, SqlRfq, SamePair
<1>9. x.paused = y.paused
  <2>1. x.paused = p /\ y.paused = p
    BY <1>2 DEF MemRfq, SqlRfq
  <2> QED BY <2>1, Zenon
<1> HIDE DEF x, y, ok, sqlOk
<1>10. SamePair(x, y)
  <2>1. x # NoRow /\ y # NoRow
    BY <1>7 DEF MemRfq, SqlRfq, NoRow, LIVE_RFQ_STATUSES, LiveRows
  <2>2. ToDb(x.status) = y.status
    BY <1>2, <1>8 DEF SamePair
  <2> QED BY <1>8, <1>9, <2>1, <2>2, Zenon DEF SamePair
<1>11. CASE ok
  <2>1. /\ MemSetPaused(r, p) = Reply([mem EXCEPT !.row[r] = x], "yes")
        /\ SqlSetPaused(r, p) = Reply([sql EXCEPT ![r] = y], "yes")
    BY <1>3, <1>4, <1>5, <1>6, <1>11, Zenon
  <2>2. mem' = [mem EXCEPT !.row[r] = x] /\ sql' = [sql EXCEPT ![r] = y] /\ said' /\ today' = today
    BY <1>1, <2>1, BothReplied
  <2>3. y.status \in LiveRows => mem.dedupe[y.key] = r
    BY <1>2, <1>8 DEF SqlLive
  <2> QED BY <1>1, <1>2, <1>7, <1>8, <1>10, <2>2, <2>3, RowRewritten
<1>12. CASE ~ok
  <2>1. MemSetPaused(r, p) = Reply(mem, "no") /\ SqlSetPaused(r, p) = Reply(sql, "no")
    BY <1>3, <1>4, <1>5, <1>12, Zenon
  <2>2. mem' = mem /\ sql' = sql /\ said' /\ today' = today
    BY <1>1, <2>1, BothReplied
  <2> QED BY <1>1, <2>2, BothRefused
<1> QED BY <1>11, <1>12

LEMMA StaleAgree ==
    ASSUME RequestsInv, ~apart, NEW r \in Rfqs
    PROVE  /\ MemLive(r) <=> SqlLive(r)
           /\ SqlLive(r) => (Stale(mem.row[r]) <=> Stale(sql[r]))
<1>1. SamePair(mem.row[r], sql[r])
  BY DEF RequestsInv, TablesAgree
<1>2. MemLive(r) <=> SqlLive(r)
  BY <1>1, RowsRead, PairsLive DEF MemLive, SqlLive
<1>3. ASSUME SqlLive(r) PROVE mem.row[r].until = sql[r].until /\ mem.row[r].born = sql[r].born
  BY <1>1, <1>3 DEF SamePair, SqlLive, NoRow, LiveRows
<1> QED BY <1>2, <1>3 DEF Stale

LEMMA FlipSteps ==
    ASSUME RequestsInv, ~apart, CloseLiveRfqsForListing \/ ExpireRfqs
    PROVE  RequestsInv'
<1>1. CASE CloseLiveRfqsForListing
  <2> DEFINE S == {r \in Tied : SqlLive(r)}
  <2>1. Both(MemCloseLive, SqlCloseLive) /\ apart' = apart
    BY <1>1 DEF CloseLiveRfqsForListing
  <2>2. S \in SUBSET Rfqs /\ {r \in Tied : MemLive(r)} = S
    BY StaleAgree, RequestsAssumption
  <2>3. MemCloseLive = MemFlip(S, "closed") /\ SqlCloseLive = SqlFlip(S, "closed")
    BY <2>2 DEF MemCloseLive, SqlCloseLive
  <2>4. \A r \in S : SqlLive(r)
    OBVIOUS
  <2> HIDE DEF S
  <2>5. /\ mem' = [mem EXCEPT !.row = [r \in Rfqs |->
                    IF r \in S THEN [mem.row[r] EXCEPT !.status = "closed"] ELSE mem.row[r]]]
        /\ sql' = [r \in Rfqs |-> IF r \in S THEN [sql[r] EXCEPT !.status = "closed"] ELSE sql[r]]
        /\ said' /\ today' = today
    BY <2>1, <2>3 DEF Both, MemFlip, SqlFlip, Reply
  <2> QED BY <2>1, <2>2, <2>4, <2>5, RowsFlipped
<1>2. CASE ExpireRfqs
  <2> DEFINE S == {r \in Rfqs : SqlLive(r) /\ Stale(sql[r])}
  <2>1. Both(MemExpire, SqlExpire) /\ apart' = apart
    BY <1>2 DEF ExpireRfqs
  <2>2. S \in SUBSET Rfqs /\ {r \in Rfqs : MemLive(r) /\ Stale(mem.row[r])} = S
    BY StaleAgree
  <2>3. MemExpire = MemFlip(S, "expired") /\ SqlExpire = SqlFlip(S, "closed")
    BY <2>2 DEF MemExpire, SqlExpire
  <2>4. \A r \in S : SqlLive(r)
    OBVIOUS
  <2> HIDE DEF S
  <2>5. /\ mem' = [mem EXCEPT !.row = [r \in Rfqs |->
                    IF r \in S THEN [mem.row[r] EXCEPT !.status = "expired"] ELSE mem.row[r]]]
        /\ sql' = [r \in Rfqs |-> IF r \in S THEN [sql[r] EXCEPT !.status = "closed"] ELSE sql[r]]
        /\ said' /\ today' = today
    BY <2>1, <2>3 DEF Both, MemFlip, SqlFlip, Reply
  <2> QED BY <2>1, <2>2, <2>4, <2>5, RowsFlipped
<1> QED BY <1>1, <1>2

\* The two keep the same requests and refuse the same keys, up to the first
\* revival of a request whose key another has claimed.
LEMMA RequestsCorrect == RequestsInit /\ [][RequestsNext]_requestVars => []RequestsInv
<1>1. RequestsInit => RequestsInv
  <2>1. ASSUME RequestsInit PROVE RequestsTypeOK
    <3>1. 0 \in 0 .. MaxDay
      BY RequestsAssumption
    <3> QED BY <2>1, <3>1 DEF RequestsInit, RequestsTypeOK
  <2>2. ASSUME RequestsInit PROVE TablesAgree
    <3>1. /\ \A r \in Rfqs : mem.row[r] = NoRow /\ sql[r] = NoRow
          /\ \A k \in Keys : mem.dedupe[k] = NoRfq
      BY <2>2 DEF RequestsInit
    <3>2. said = TRUE
      BY <2>2 DEF RequestsInit
    <3>3. \A r \in Rfqs : SamePair(mem.row[r], sql[r]) /\ ~SqlLive(r)
      BY <3>1 DEF SamePair, SqlLive, NoRow, LiveRows
    <3>4. HoldersKeep /\ LiveHold
      BY <3>1, <3>3 DEF HoldersKeep, LiveHold
    <3> QED BY <3>2, <3>3, <3>4 DEF TablesAgree
  <2> QED BY <2>1, <2>2 DEF RequestsInv
<1>2. RequestsInv /\ [RequestsNext]_requestVars => RequestsInv'
  <2>1. ASSUME RequestsInv, UNCHANGED requestVars PROVE RequestsInv'
    BY <2>1 DEF requestVars, RequestsInv, RequestsTypeOK, TablesAgree, HoldersKeep, LiveHold, SqlLive
  <2>2. ASSUME RequestsInv, DayPasses PROVE RequestsInv'
    <3>1. today \in 0 .. MaxDay /\ today' \in 0 .. MaxDay /\ mem' = mem /\ sql' = sql /\ said' = said /\ apart' = apart
      BY <2>2, RequestsAssumption DEF DayPasses, RequestsInv, RequestsTypeOK
    <3> QED BY <2>2, <3>1 DEF RequestsInv, RequestsTypeOK, TablesAgree, HoldersKeep, LiveHold, SqlLive
  <2>3. ASSUME RequestsInv, RequestsNext PROVE RequestsInv'
    BY <2>2, <2>3, RequestCreated, RequestAmended, TakenDown, Revived, Extended, PauseSet, FlipSteps
       DEF RequestsNext
  <2> QED BY <2>1, <2>3
<1> QED BY <1>1, <1>2, PTL
=============================================================================
