------------------------------ MODULE ResultReads ------------------------------
(* Reads of the pages of a live list (_command_interface/result_delivery.py, *)
(* _read): the view that is kept is checked against the revision of the      *)
(* source, built again when it is of another one, and a page of whatever the *)
(* pointer then selects is delivered after a last check of the authority.    *)
(* Several processes with the credential of one owner read at once; each     *)
(* call of the store holds its lock, what is between two calls does not.     *)
EXTENDS Naturals, FiniteSets

CONSTANTS Readers, Pages,
          MaxRevision, MaxToggles    \* bounds

ASSUME ReadsAssumption ==
    IsFiniteSet(Readers) /\ IsFiniteSet(Pages) /\ MaxRevision \in Nat \ {0} /\ MaxToggles \in Nat

VARIABLES revision,   \* of the maintained projection of the source, 1 at the opening
          permitted,  \* whether check_result_delivery passes
          toggles,    \* how often that changed
          alive,      \* the result has been neither superseded nor cleared
          view,       \* what the pointer selects: the revision it states and the one its data is of
          observed,   \* observed[g]: the revision accepted for page g, or 0
          rd,         \* rd[p]: the read that p is in, or its last answer
          announced,  \* announced[g]: the revisions whose notice was accepted
          accepted,   \* the pages of which the notice of the current view was committed
          lost,       \* lost[g]: those committed by a read that was refused for all that
          regressed   \* the view was once replaced by one of an older revision

readsVars == <<revision, permitted, toggles, alive, view, observed, rd, announced, accepted, lost, regressed>>
history == <<announced, accepted, lost, regressed>>

Opening == 1
NoView == [stated |-> 0, data |-> 0]
NotReading == [pc |-> "idle", page |-> 0, want |-> 0, frame |-> NoView, previous |-> 0,
         notice |-> FALSE, held |-> FALSE]

\* The opening may have published the result and failed to save its view.
ReadsInit ==
    /\ revision = Opening /\ permitted = TRUE /\ toggles = 0 /\ alive = TRUE
    /\ view \in {NoView, [stated |-> Opening, data |-> Opening]}
    /\ observed = [g \in Pages |-> 0] /\ rd = [p \in Readers |-> NotReading]
    /\ announced = [g \in Pages |-> {}] /\ lost = announced /\ accepted = {}
    /\ regressed = FALSE

IsAt(p, pc) == rd[p].pc = pc
Refused(p) == rd' = [rd EXCEPT ![p] = [NotReading EXCEPT !.pc = "refused"]]
\* A step of a read: what it does when the store still has the result.
Step(p, pc, Then) ==
    /\ IsAt(p, pc) /\ IF alive THEN Then ELSE Refused(p)
Unchanged == UNCHANGED <<revision, permitted, toggles, alive>>

----------------------------------------------------------------------------
\* The descriptor is read and the authority checked, then the revision observed.
Begin(p) ==
    /\ rd[p].pc \in {"idle", "refused", "answered"}
    /\ IF alive /\ permitted
          THEN \E g \in Pages :
                  rd' = [rd EXCEPT ![p] = [NotReading EXCEPT !.pc = "look", !.page = g, !.want = revision]]
          ELSE Refused(p)
    /\ Unchanged /\ UNCHANGED <<view, observed, history>>

\* The kept view is used when it states the revision observed.
Look(p) ==
    /\ Step(p, "look", rd' = [rd EXCEPT ![p].pc = IF view.stated = rd[p].want THEN "select" ELSE "query"])
    /\ Unchanged /\ UNCHANGED <<view, observed, history>>

\* _refresh: the query runs again under the authority of its source, which may
\* refuse it or fail.
Query(p) ==
    /\ IsAt(p, "query")
    /\ \/ rd' = [rd EXCEPT ![p].pc = "recheck", ![p].frame = [stated |-> rd[p].want, data |-> revision]]
       \/ Refused(p)
    /\ Unchanged /\ UNCHANGED <<view, observed, history>>

\* Mutant: the data is taken for that of the revision observed before.
Recheck_Trust(p) ==
    /\ IsAt(p, "recheck") /\ rd' = [rd EXCEPT ![p].pc = "save"]
    /\ Unchanged /\ UNCHANGED <<view, observed, history>>

Recheck(p) ==
    /\ IsAt(p, "recheck")
    /\ IF revision = rd[p].want THEN rd' = [rd EXCEPT ![p].pc = "save"] ELSE Refused(p)
    /\ Unchanged /\ UNCHANGED <<view, observed, history>>

\* save_view: whatever the pointer selects now is replaced, also by a save that
\* fails after that.
Save(p) ==
    /\ IsAt(p, "save")
    /\ \/ /\ alive /\ view' = rd[p].frame
          /\ rd' = [rd EXCEPT ![p].pc = "select"] \/ Refused(p)
          /\ accepted' = {}
          /\ regressed' = (regressed \/ rd[p].frame.stated < view.stated)
          /\ UNCHANGED <<observed, announced, lost>>
       \/ Refused(p) /\ UNCHANGED <<view, observed, history>>
    /\ Unchanged

\* read_view_selection: page and metadata of one generation, under one lock.
Changes(g) == (IF observed[g] = 0 THEN Opening ELSE observed[g]) # view.stated
Selects(p) ==
    LET g == rd[p].page
    IN  rd' = [rd EXCEPT ![p] = [@ EXCEPT !.pc = "check", !.frame = view, !.previous = observed[g],
                                          !.notice = Changes(g), !.held = permitted]]
\* Mutant: the observation is advanced with the selection (observe_page).
Select_Observe(p) ==
    /\ Step(p, "select", Selects(p))
    /\ observed' = IF alive THEN [observed EXCEPT ![rd[p].page] = view.stated] ELSE observed
    /\ Unchanged /\ UNCHANGED <<view, history>>

Select(p) ==
    /\ Step(p, "select", Selects(p))
    /\ Unchanged /\ UNCHANGED <<view, observed, history>>

LastCheck(p) ==
    /\ IsAt(p, "check")
    /\ IF permitted THEN rd' = [rd EXCEPT ![p].pc = IF rd[p].notice THEN "commit" ELSE "answered"]
       ELSE Refused(p)
    /\ Unchanged /\ UNCHANGED <<view, observed, history>>

\* The observation that this one was based on still stands.
Stands(p) == observed[rd[p].page] = rd[p].previous

\* commit_page_observation, only when there is a change to be told.  It may fail
\* after the observation was replaced: the read is refused, its notice is lost.
Commit(p) ==
    LET g == rd[p].page
        s == rd[p].frame.stated
    IN  /\ IsAt(p, "commit")
        /\ \/ /\ alive
              /\ IF Stands(p)
                    THEN /\ observed' = [observed EXCEPT ![g] = s]
                         /\ accepted' = IF s = view.stated THEN accepted \union {g} ELSE accepted
                    ELSE UNCHANGED <<observed, accepted>>
              /\ \/ /\ rd' = [rd EXCEPT ![p].pc = "answered"] /\ UNCHANGED lost
                    /\ announced' = [announced EXCEPT ![g] = @ \union {s}]
                 \/ /\ Stands(p) /\ Refused(p) /\ UNCHANGED announced
                    /\ lost' = [lost EXCEPT ![g] = @ \union {s}]
           \/ Refused(p) /\ UNCHANGED <<observed, announced, accepted, lost>>
        /\ Unchanged /\ UNCHANGED <<view, regressed>>

----------------------------------------------------------------------------
(* The world around: the source changes, permission is taken and given back, *)
(* the result ends.                                                          *)
Change ==
    /\ revision < MaxRevision /\ revision' = revision + 1
    /\ UNCHANGED <<permitted, toggles, alive, view, observed, rd, history>>

Toggle ==
    /\ toggles < MaxToggles /\ toggles' = toggles + 1 /\ permitted' = ~ permitted
    /\ rd' = [p \in Readers |-> IF IsAt(p, "check") THEN [rd[p] EXCEPT !.held = @ \/ ~ permitted] ELSE rd[p]]
    /\ UNCHANGED <<revision, alive, view, observed, history>>

Ends ==
    /\ alive /\ alive' = FALSE
    /\ UNCHANGED <<revision, permitted, toggles, view, observed, rd, history>>

ReadsNext ==
    \/ \E p \in Readers :
          \/ Begin(p) \/ Look(p) \/ Query(p) \/ Recheck(p) \/ Save(p)
          \/ Select(p) \/ LastCheck(p) \/ Commit(p)
    \/ Change \/ Toggle \/ Ends
ReadsSpec == ReadsInit /\ [][ReadsNext]_readsVars
----------------------------------------------------------------------------
ReadPcs == {"idle", "look", "query", "recheck", "save", "select", "check", "commit", "answered", "refused"}
ReadsTypeOK ==
    /\ revision \in 1..MaxRevision /\ permitted \in BOOLEAN /\ alive \in BOOLEAN /\ toggles \in 0..MaxToggles
    /\ view \in [stated : 0..revision, data : 0..revision]
    /\ observed \in [Pages -> 0..revision]
    /\ \A p \in Readers :
          /\ rd[p].pc \in ReadPcs /\ rd[p].want \in 0..revision
          /\ rd[p].pc \in {"select", "check", "commit", "answered"} => view.stated # 0

\* The revision that an answer states is the one its data is of, although the
\* source may change at any time while the query runs (_refresh, the revision
\* read twice) and other readers replace the view (read_view_selection).
PageIsWhatItSays ==
    \A p \in Readers : IsAt(p, "answered") => rd[p].frame.stated = rd[p].frame.data

\* A page is answered only if the permission was there at some time after it
\* was read from the store: one taken away while the read was on ends the read
\* (_read, the second _check).
CheckedLast == \A p \in Readers : IsAt(p, "answered") => rd[p].held

\* A page that changed since the opening is answered without a notice only after
\* the notice of that revision was committed and, unless the commit itself failed
\* after its effect, answered: a read that is refused before does not use the
\* notice up (read_view_selection stages, commit_page_observation commits).
ChangesAnnounced ==
    \A p \in Readers :
        IsAt(p, "answered") /\ ~ rd[p].notice =>
            rd[p].frame.stated \in {Opening} \union announced[rd[p].page] \union lost[rd[p].page]

\* A notice that was committed for the current view is not undone by a delayed
\* commit of an earlier one, so that unchanged rereads stay silent, as long as
\* views are not replaced by older ones (commit_page_observation, :578).
AcceptedWins ==
    ~ regressed => \A g \in accepted : observed[g] = view.stated

\* A page that is answered is of its revision and was permitted (_read).
AnswersTrue == ReadsTypeOK /\ PageIsWhatItSays /\ CheckedLast

\* Every change is announced unless its commit fails, and announced once
\* (commit_page_observation).
NoticesKept == ChangesAnnounced /\ AcceptedWins
=============================================================================
