------------------------------ MODULE SerialDraft ------------------------------
(***************************************************************************)
(* What the rows of a draft promise to callers that pass `expect`          *)
(* (site-store.ts, SiteWrite.expect; d1r2-store.ts, write), without        *)
(* versions, keys, objects or batches: writes are serial.  One that is     *)
(* told it landed did so at one instant, over rows nothing had changed     *)
(* since the caller began; one that is refused, as it is behind or for     *)
(* another reason, changed none; and whoever writes to a site that is gone *)
(* may be told anything.                                                   *)
(***************************************************************************)
EXTENDS Absence

CONSTANTS
    Writer,   \* callers, each of which writes once
    Page, Asset

VARIABLES
    draft,    \* the pages, the edits in them and the assets, or None
    phase,    \* caller -> whether its write is under way, and what it was told
    behind    \* callers under way since whose beginning the draft has changed

Open == {w \in Writer : phase[w] = "open"}

Init ==
    /\ draft = None
    /\ phase = [w \in Writer |-> "idle"]
    /\ behind = {}

\* The draft changes, and whoever is under way is behind.
Change(d) == draft' = d /\ behind' = Open'

Create ==
    /\ draft = None
    /\ Change([pages |-> {}, body |-> {}, assets |-> {}])
    /\ UNCHANGED phase

Forget ==
    /\ draft # None
    /\ Change(None)
    /\ UNCHANGED phase

\* A caller reads what its write will be made from.
Begin(w) ==
    /\ draft # None
    /\ phase[w] = "idle"
    /\ phase' = [phase EXCEPT ![w] = "open"]
    /\ UNCHANGED <<draft, behind>>

Answer(w, told) == phase[w] = "open" /\ phase' = [phase EXCEPT ![w] = told]

\* The pages with an edit of the caller's in each that it puts, none in those that
\* it drops and what they had in all others.
Written(w, put, drop, putAsset, dropAsset) ==
    [pages |-> (draft.pages \cup put) \ drop,
     body |-> (draft.body \ (drop \X Writer)) \cup (put \X {w}),
     assets |-> (draft.assets \cup putAsset) \ dropAsset]

Write(w) ==
    /\ draft # None
    /\ w \notin behind
    /\ Answer(w, "done")
    /\ \E put, drop \in SUBSET Page, putAsset, dropAsset \in SUBSET Asset :
          /\ put \cap drop = {} /\ putAsset \cap dropAsset = {}
          /\ Change(Written(w, put, drop, putAsset, dropAsset))

Refuse(w) ==
    /\ draft # None
    /\ Answer(w, "refused")
    /\ behind' = behind \ {w}
    /\ UNCHANGED draft

\* The site is gone.
Miss(w) ==
    /\ draft = None
    /\ \E told \in {"done", "refused", "failed"} : Answer(w, told)
    /\ behind' = behind \ {w}
    /\ UNCHANGED draft

Next ==
    \/ Create \/ Forget
    \/ \E w \in Writer : Begin(w) \/ Write(w) \/ Refuse(w) \/ Miss(w)

Spec == Init /\ [][Next]_<<draft, phase, behind>>

=============================================================================
