------------------------------ MODULE Matching ------------------------------
(***************************************************************************)
(* Which operators hear of a request: the domain's matching rule           *)
(* (packages/domain matching.ts and plans.ts) and the two fan-outs that    *)
(* call it, in lockstep: inline in the web process over the memory         *)
(* repository (lib/fanout.ts), and the worker's handler over SQL.  An      *)
(* operator's book holds listings by what the rule sees of them, "foreign" *)
(* being another vertical's and "draft" one that is not active.            *)
(*                                                                         *)
(* A fan-out is one step here (module Fanout splits the worker's), and a   *)
(* delay does not run out.  Dealers are numbers: the rule breaks ties by   *)
(* their ids.                                                              *)
(***************************************************************************)
EXTENDS Integers, FiniteSets, FiniteSetsExt

CONSTANTS
    Dealers,       \* operators
    Lister,        \* the one whose listing was asked about
    Limit,         \* matches of one fan-out (10 in the code)
    Stocks,        \* the books operators may have
    MaxChanges     \* bound: edits of operators and of the request

ASSUME MatchingAssumption ==
    /\ Dealers \subseteq Nat /\ IsFiniteSet(Dealers) /\ Lister \in Dealers
    /\ Limit \in Nat /\ MaxChanges \in Nat

VARIABLES
    dealer,        \* dealer[d]: verified, pro, home (in the departure's region), out
    book,          \* book[d]: its listings
    model,         \* the category of the listing asked about, or "none"
    asked,         \* the request: category and seats, "none" and 0 when not named
    paid,          \* concierge
    inline, worker, \* the two sides: state, rows[d] the delay in minutes, mails[d]
    changes        \* bound's counter

matchingVars == <<dealer, book, model, asked, paid, inline, worker, changes>>

Others == Dealers \ {Lister}
Wishes == [category : {"none", "light", "heavy"}, seats : {0, 6}]
NoMails == [d \in Dealers |-> 0]
Unsent == [state |-> "new", rows |-> [d \in {} |-> 0], mails |-> NoMails]

MatchingInit ==
    /\ \E veterans \in {{}, Others}, homes \in {{}} \cup {{d} : d \in Others} :
         dealer = [d \in Dealers |-> [verified |-> d \in veterans, pro |-> d \in veterans,
                                      home |-> d \in homes, out |-> FALSE]]
    /\ book \in [Dealers -> Stocks]
    /\ book[Lister] = {"light"}
    /\ model \in {"none", "light"}
    /\ asked \in Wishes
    /\ paid = FALSE /\ changes = 0
    /\ inline = Unsent /\ worker = Unsent

-----------------------------------------------------------------------------
(* The rule.                                                               *)

\* What the rule reads of a listing; an empty fleet is one entry that says nothing.
CategoryOf(entry) == IF entry \in {"light", "heavy"} THEN entry ELSE "none"
SeatsOf(entry) == CASE entry = "light" -> 4 [] entry = "heavy" -> 12 [] OTHER -> 0
Fleet(d) == book[d] \ {"foreign", "draft"}
Considered(d) == IF Fleet(d) = {} THEN {"unknown"} ELSE Fleet(d)

\* The request's requirements: the category of the listing stands in for one the
\* buyer did not name.
Needs(wish) == [wish EXCEPT !.category = IF @ = "none" THEN model ELSE @]

\* A named category must be met; seats an entry does not state are no objection.
Suits(entry, need) ==
    /\ need.category # "none" => CategoryOf(entry) = need.category
    /\ need.seats # 0 /\ SeatsOf(entry) # 0 => SeatsOf(entry) >= need.seats

One(b) == IF b THEN 1 ELSE 0

EntryScore(d, entry, need) ==
    2 * One(need.category # "none" /\ CategoryOf(entry) # "none")
      + One(need.seats # 0 /\ SeatsOf(entry) # 0) + One(dealer[d].home)

Suiting(d, need) == {entry \in Considered(d) : Suits(entry, need)}
Score(d, need) ==
    Max({EntryScore(d, entry, need) : entry \in Suiting(d, need)}) + One(dealer[d].verified)

Ahead(d, e, need) ==
    \/ Score(d, need) > Score(e, need)
    \/ Score(d, need) = Score(e, need) /\ d < e

Chosen(candidates, need) ==
    LET fit == {d \in candidates \ {Lister} : Suiting(d, need) # {}}
    IN  {d \in fit : Cardinality({e \in fit : Ahead(e, d, need)}) < Limit}

\* Minutes: the longer of the plan's delay and the unverified one.
Delay(d) ==
    Max({IF dealer[d].pro THEN 0 ELSE 1440, IF dealer[d].verified THEN 0 ELSE 360})

-----------------------------------------------------------------------------
(* The two fan-outs.                                                       *)

\* lib/fanout.ts: out are those away and those whose whole book is foreign.
InlineCandidates ==
    {d \in Dealers : ~dealer[d].out /\ (book[d] = {} \/ book[d] \ {"foreign"} # {})}

\* Mutation of SqlCandidates: the alternative is spliced in without its
\* parentheses, and what follows binds to its second half only.
SqlCandidatesSpliced ==
    {d \in Dealers : "foreign" \notin book[d]
                     \/ (book[d] \ {"foreign"} # {} /\ ~dealer[d].out)}

\* loadOperatorCandidates: no foreign listing, or one of this vertical.
SqlCandidates ==
    {d \in Dealers : ("foreign" \notin book[d] \/ book[d] \ {"foreign"} # {})
                     /\ ~dealer[d].out}

\* insertMatches: a pair that is there keeps its row.
Inserted(rows, matches) ==
    [d \in DOMAIN rows \cup DOMAIN matches |-> IF d \in DOMAIN rows THEN rows[d] ELSE matches[d]]

Mailed(mails, ds) == [d \in Dealers |-> mails[d] + One(d \in ds)]

\* fanoutRfq: nothing to do without a match; existing pairs keep their row; the
\* mail goes to every instant match, one that was there before too.
InlineFanout(wish) ==
    LET matches == [d \in Chosen(InlineCandidates, Needs(wish)) |-> Delay(d)]
    IN  IF DOMAIN matches = {} THEN inline
        ELSE [state |-> IF inline.state = "new" THEN "matched" ELSE inline.state,
              rows |-> Inserted(inline.rows, matches),
              mails |-> Mailed(inline.mails, {d \in DOMAIN matches : matches[d] = 0})]

\* rfqFanout: a paid request waits for nobody, the request is marked whatever was
\* found, and the mail goes to the instant rows it inserted.
SqlFanout(wish) ==
    LET matches == [d \in Chosen(SqlCandidates, Needs(wish)) |-> IF paid THEN 0 ELSE Delay(d)]
        inserted == DOMAIN matches \ DOMAIN worker.rows
    IN  [state |-> IF worker.state = "new" THEN "matched" ELSE worker.state,
         rows |-> Inserted(worker.rows, matches),
         mails |-> Mailed(worker.mails, {d \in inserted : matches[d] = 0})]

\* The request is posted, and each side fans it out.
Publish ==
    /\ worker.state = "new"
    /\ inline' = InlineFanout(asked) /\ worker' = SqlFanout(asked)
    /\ UNCHANGED <<dealer, book, model, asked, paid, changes>>

\* expediteRfq: the rows that wait become instant, and their operators are mailed.
Released(side) ==
    LET waiting == {d \in DOMAIN side.rows : side.rows[d] > 0}
    IN  [side EXCEPT !.rows = [d \in DOMAIN @ |-> 0], !.mails = Mailed(@, waiting)]

PayForConcierge ==
    /\ ~paid
    /\ paid' = TRUE
    /\ inline' = Released(inline) /\ worker' = Released(worker)
    /\ UNCHANGED <<dealer, book, model, asked, changes>>

Change == changes < MaxChanges /\ changes' = changes + 1

\* What happens to operators between two fan-outs.
Become(d) ==
    /\ Change
    /\ \E what \in {"verified", "pro", "out"} :
         dealer' = [dealer EXCEPT ![d][what] = ~@]
    /\ UNCHANGED <<book, model, asked, paid, inline, worker>>

Restock(d) ==
    /\ Change
    /\ \E stock \in Stocks \ {book[d]} : book' = [book EXCEPT ![d] = stock]
    /\ UNCHANGED <<dealer, model, asked, paid, inline, worker>>

\* PATCH /api/rfqs/[id]: the new wishes, and the fan-out again.
AmendWishes ==
    /\ Change /\ worker.state # "new"
    /\ asked' \in Wishes \ {asked}
    /\ inline' = InlineFanout(asked') /\ worker' = SqlFanout(asked')
    /\ UNCHANGED <<dealer, book, model, paid>>

MatchingNext ==
    \/ Publish \/ PayForConcierge \/ AmendWishes
    \/ \E d \in Others : Become(d) \/ Restock(d)

MatchingSpec == MatchingInit /\ [][MatchingNext]_matchingVars

-----------------------------------------------------------------------------
MatchingTypeOK ==
    /\ dealer \in [Dealers -> [verified : BOOLEAN, pro : BOOLEAN, home : BOOLEAN, out : BOOLEAN]]
    /\ book \in [Dealers -> Stocks]
    /\ asked \in Wishes
    /\ \A side \in {inline, worker} :
         /\ side.state \in {"new", "matched"}
         /\ DOMAIN side.rows \subseteq Others
         /\ \A d \in DOMAIN side.rows : side.rows[d] \in {0, 360, 1440}

\* The demo's inline fan-out and the worker's pick the same operators with the
\* same delay ("Fleet mirrors the worker's loadOperatorCandidates", lib/fanout.ts),
\* through any sequence of edits, amendments and payments: up to the payment, which
\* only the worker applies to later matches.  The worker announces a request to an
\* operator exactly when its row is free to be seen, and once.
FanoutsAgree ==
    /\ DOMAIN inline.rows = DOMAIN worker.rows
    /\ \A d \in DOMAIN worker.rows :
         /\ ~paid => inline.rows[d] = worker.rows[d]
         /\ paid => worker.rows[d] = 0
         /\ worker.mails[d] = One(worker.rows[d] = 0)
    /\ DOMAIN inline.rows # {} => inline.state = worker.state

\* "Existing match pairs are untouched, only new fits get rows + the new-RFQ mail"
\* (the amendment's route).
NewMailOnce == \A d \in Dealers : inline.mails[d] <= 1
=============================================================================
