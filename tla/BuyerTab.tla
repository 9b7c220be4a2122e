------------------------------ MODULE BuyerTab ------------------------------
(***************************************************************************)
(* One browser tab on the buyer's page: where the bearer token comes from, *)
(* which load is under way, and when the page reloads itself.  A token is  *)
(* the link that carried it; a link opens the rows of its mailbox.  Links  *)
(* arrive as documents: a change of the fragment alone is not picked up.   *)
(***************************************************************************)
EXTENDS Naturals

CONSTANTS Links, NoLink

ASSUME NoLinkIsNone == NoLink \notin Links

VARIABLES
    token,         \* the page's state
    stash,         \* sessionStorage: outlives a document, not the tab
    storable,      \* the browser lets the page store
    rows,          \* the link whose rows are on screen
    loads,         \* the tokens of the loads in flight
    busy, editing, \* a mutation is under way; the amend form is open
    opened         \* history: the link that was opened last

tabVars == <<token, stash, storable, rows, loads, busy, editing, opened>>

TabInit ==
    /\ storable \in BOOLEAN
    /\ token = NoLink /\ stash = NoLink /\ rows = NoLink /\ opened = NoLink
    /\ loads = {} /\ busy = FALSE /\ editing = FALSE

\* A document begins with the link in its address, or after a reload, which has
\* been stripped of it, with what was stashed.
Arrives(link) ==
    /\ token' = IF link # NoLink THEN link ELSE stash
    /\ loads' = IF token' = NoLink THEN {} ELSE {token'}
    /\ rows' = NoLink /\ busy' = FALSE /\ editing' = FALSE
    /\ opened' = IF link # NoLink THEN link ELSE opened
    /\ UNCHANGED storable

Arrive(link) ==
    /\ Arrives(link)
    /\ stash' = IF link # NoLink /\ storable THEN link ELSE stash

\* load: an answer replaces the rows, an error leaves them.
Land(link) ==
    /\ link \in loads
    /\ rows' \in {rows, link}
    /\ loads' = loads \ {link}
    /\ UNCHANGED <<token, stash, storable, busy, editing, opened>>

\* The page's own form, and the order of its rows: not gated by a mutation.
Search ==
    /\ token # NoLink
    /\ loads' = loads \cup {token}
    /\ UNCHANGED <<token, stash, storable, rows, busy, editing, opened>>

\* The tab comes back into view.
Wake ==
    /\ rows # NoLink /\ ~busy /\ ~editing
    /\ loads' = loads \cup {token}
    /\ UNCHANGED <<token, stash, storable, rows, busy, editing, opened>>

\* withBusy: a click during a mutation is dropped; a mutation that went through
\* loads the rows anew, a saved amendment closes its form.
Click ==
    /\ rows # NoLink /\ ~busy
    /\ busy' = TRUE
    /\ UNCHANGED <<token, stash, storable, rows, loads, editing, opened>>

Done(wentThrough) ==
    /\ busy
    /\ busy' = FALSE
    /\ loads' = IF wentThrough THEN loads \cup {token} ELSE loads
    /\ editing' \in IF wentThrough THEN {editing, FALSE} ELSE {editing}
    /\ UNCHANGED <<token, stash, storable, rows, opened>>

EditForm ==
    /\ rows # NoLink
    /\ editing' = ~editing
    /\ UNCHANGED <<token, stash, storable, rows, loads, busy, opened>>

TabNext ==
    \/ \E link \in Links \cup {NoLink} : Arrive(link)
    \/ \E link \in Links : Land(link)
    \/ Search \/ Wake \/ Click \/ EditForm
    \/ \E wentThrough \in BOOLEAN : Done(wentThrough)

\* quotes/page.tsx: "a different buyer's link in the same tab must not keep the
\* old one", and a reload keeps the mailbox unless the browser stores nothing.
TabSpeaksForItsLink ==
    /\ rows \in {NoLink, opened}
    /\ token \in {NoLink, opened}
    /\ storable => token = opened

TabTypeOK ==
    /\ {token, stash, rows, opened} \subseteq Links \cup {NoLink}
    /\ loads \subseteq Links
    /\ {storable, busy, editing} \subseteq BOOLEAN
=============================================================================
