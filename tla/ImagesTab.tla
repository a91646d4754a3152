------------------------------ MODULE ImagesTab ------------------------------
(***************************************************************************)
(* The Images tab of the admin UI over the core service (module Images).   *)
(* Files are uploaded each on its own: token, PUT, confirm; cards are      *)
(* moved, described and deleted; and whatever succeeds is followed by a    *)
(* refresh of the product.  Requests and refreshes overlap and are         *)
(* answered in any order, answers are lost, and another administrator may  *)
(* delete or reorder at the same time.                                     *)
(*                                                                         *)
(* Definitions marked "variant" are not the code's (see Images).           *)
(***************************************************************************)
EXTENDS Images

CONSTANTS
  File,       \* rows of the upload list; each is a caller, as the cards are
  Other,      \* calls of another administrator
  Button,     \* the Refresh buttons, which start a refresh and no call
  OnSite,     \* the photos there are at first
  MaxClicks,  \* bound on card actions, by anybody
  MaxFaults   \* bound on lost answers and failed refreshes together

ASSUME TabAssumption ==
  /\ Caller = File \cup Image \cup Other \cup Button /\ OnSite \subseteq Image
  /\ File \cap Image = {} /\ (File \cup Image) \cap (Other \cup Button) = {}
  /\ MaxClicks \in Nat /\ MaxFaults \in Nat

VARIABLES
  grid,       \* the photos shown, with their places
  listStale,  \* a refresh has failed since the last that was applied
  upload,     \* per file: the stage its row shows
  token,      \* per file: the photo core gave it
  refresh,    \* per caller: the refresh that it waits for
  astray,     \* history: core changed in a way that no answer told the tab
  clicks, faults

tabVars == <<grid, listStale, upload, token, refresh, astray>>
vars == <<coreVars, tabVars, clicks, faults>>

Stage == {"idle", "uploading", "confirming", "saved", "refresh-error", "error", "cleared"}

NoRefresh == [at |-> "none", data |-> <<>>, files |-> {}, newest |-> FALSE]

InitialRow(i) ==
  [status |-> IF i \in OnSite THEN "ready" ELSE "none",
   pos |-> IF i \in OnSite THEN Cardinality({j \in OnSite : j < i}) ELSE 0, old |-> FALSE]

Init ==
  /\ row = [i \in Image |-> InitialRow(i)]
  /\ object = [i \in Image |-> IF i \in OnSite THEN "good" ELSE "none"]
  /\ lock = Free
  /\ call = [c \in Caller |-> Idle]
  /\ grid = Shown /\ listStale = FALSE
  /\ upload = [f \in File |-> "idle"] /\ token = [f \in File |-> NoImage]
  /\ refresh = [c \in Caller |-> NoRefresh]
  /\ astray = FALSE /\ clicks = 0 /\ faults = 0

Fault == faults < MaxFaults /\ faults' = faults + 1
Click == clicks < MaxClicks /\ clicks' = clicks + 1
Answered(c, how) == call[c].op # "none" /\ call[c].at = how
Done(c) == call' = [call EXCEPT ![c] = Idle]

-----------------------------------------------------------------------------
(* refresh() *)

InFlight == {c \in Caller : refresh[c].at # "none"}

(* It is the newest from now on, and will clear the rows that are saved    *)
(* now; stages are the rows with their new stages.                         *)
Issue(c, stages) ==
  refresh' = [d \in Caller |->
    IF d = c
    THEN [at |-> "sent", data |-> <<>>, newest |-> TRUE,
          files |-> {f \in File : stages[f] \in {"saved", "refresh-error"}}]
    ELSE [refresh[d] EXCEPT !.newest = FALSE]]

GetProduct(c) ==
  /\ refresh[c].at = "sent"
  /\ refresh' = [refresh EXCEPT ![c].at = "read", ![c].data = Shown]
  /\ UNCHANGED <<coreVars, grid, listStale, upload, token, astray, clicks, faults>>

(* A card is busy until its refresh is over. *)
Over(c) ==
  /\ refresh' = [refresh EXCEPT ![c] = NoRefresh]
  /\ call' = IF c \in Image THEN [call EXCEPT ![c] = Idle] ELSE call
  /\ UNCHANGED <<row, object, lock, token, astray, clicks>>

(* variant: whatever answer comes is applied *)
ApplyAny(c) ==
  /\ refresh[c].at = "read"
  /\ grid' = refresh[c].data
  /\ listStale' = FALSE
  /\ upload' = [f \in File |-> IF f \in refresh[c].files THEN "cleared" ELSE upload[f]]
  /\ Over(c) /\ UNCHANGED faults

(* Only the answer to the newest refresh counts. *)
Apply(c) ==
  /\ refresh[c].at = "read"
  /\ IF refresh[c].newest
     THEN /\ grid' = refresh[c].data
          /\ listStale' = FALSE
          /\ upload' = [f \in File |-> IF f \in refresh[c].files THEN "cleared" ELSE upload[f]]
     ELSE UNCHANGED <<grid, listStale, upload>>
  /\ Over(c) /\ UNCHANGED faults

(* variant: a failed refresh leaves its rows as they are *)
RefreshFailsQuietly(c) ==
  /\ refresh[c].at # "none" /\ Fault
  /\ listStale' = TRUE
  /\ Over(c) /\ UNCHANGED <<grid, upload>>

RefreshFails(c) ==
  /\ refresh[c].at # "none" /\ Fault
  /\ IF refresh[c].newest
     THEN /\ listStale' = TRUE
          /\ upload' = [f \in File |-> IF f \in refresh[c].files /\ upload[f] = "saved"
                                       THEN "refresh-error" ELSE upload[f]]
     ELSE UNCHANGED <<listStale, upload>>
  /\ Over(c) /\ UNCHANGED grid

(* The Refresh button of a saved row or of a card. *)
RefreshAgain(c) ==
  /\ c \in Button /\ InFlight = {}
  /\ listStale \/ \E f \in File : upload[f] = "refresh-error"
  /\ Issue(c, upload)
  /\ UNCHANGED <<coreVars, grid, listStale, upload, token, astray, clicks, faults>>

-----------------------------------------------------------------------------
(* uploadOne, retry *)

Moves(f, stage) == upload' = [upload EXCEPT ![f] = stage]

(* Every attempt asks for a new token. *)
Upload(f) ==
  /\ upload[f] \in {"idle", "error"} /\ With("none") # {}
  /\ call[f] = Idle /\ refresh[f] = NoRefresh
  /\ Request(f, "upload", NoImage, <<>>)
  /\ Moves(f, "uploading")
  /\ UNCHANGED <<row, object, lock, grid, listStale, token, refresh, astray, clicks, faults>>

(* The token comes, and the bytes reach the storage, right or not what was *)
(* declared.                                                               *)
Put(f, bytes) ==
  LET i == call[f].img IN
  /\ upload[f] = "uploading" /\ Answered(f, "ok")
  /\ token' = [token EXCEPT ![f] = i]
  /\ object' = [object EXCEPT ![i] = bytes]
  /\ Moves(f, "confirming") /\ Request(f, "confirm", i, <<>>)
  /\ UNCHANGED <<row, lock, grid, listStale, refresh, astray, clicks, faults>>

(* The photo is saved; the refresh is asked for once, when the other files *)
(* that were added with it have ended, well or not.                        *)
Confirmed(f) ==
  /\ upload[f] = "confirming" /\ Answered(f, "ok")
  /\ Moves(f, "saved") /\ Goes(f, "settled")
  /\ UNCHANGED <<row, object, lock, grid, listStale, token, refresh, astray, clicks, faults>>

BatchSettled(f) ==
  /\ At(f, "confirm", "settled")
  /\ Done(f) /\ Issue(f, upload)
  /\ UNCHANGED <<row, object, lock, grid, listStale, upload, token, astray, clicks, faults>>

UploadFails(f) ==
  /\ upload[f] \in {"uploading", "confirming"}
  /\ \/ Answered(f, "failed") /\ UNCHANGED <<faults, astray>>
     \/ Answered(f, "ok") /\ Fault /\ astray' = (astray \/ upload[f] = "confirming")
  /\ Moves(f, "error") /\ Done(f)
  /\ UNCHANGED <<row, object, lock, grid, listStale, token, refresh, clicks>>

-----------------------------------------------------------------------------
(* Cards *)

Unsettled == {f \in File : upload[f] \notin {"idle", "error", "cleared"}}

GridLocked == InFlight # {} \/ listStale \/ Unsettled # {}

Busy == {c \in Image : call[c] # Idle}

Swapped(order, i, j) == [order EXCEPT ![i] = order[j], ![j] = order[i]]

CardUnchanged == UNCHANGED <<row, object, lock, tabVars, faults>>

(* variant: only the card itself must be free *)
MoveWhileBusy(i, j) ==
  /\ call[i] = Idle /\ ~GridLocked /\ Click
  /\ {i, j} \subseteq DOMAIN grid /\ grid[j] = grid[i] + 1
  /\ Request(i, "reorder", i, Swapped(grid, i, j))
  /\ CardUnchanged

(* A photo is moved one place; the whole order is sent. *)
Move(i, j) ==
  /\ Busy = {} /\ ~GridLocked /\ Click
  /\ {i, j} \subseteq DOMAIN grid /\ grid[j] = grid[i] + 1
  /\ Request(i, "reorder", i, Swapped(grid, i, j))
  /\ CardUnchanged

Remove(i) ==
  /\ call[i] = Idle /\ ~GridLocked /\ Click
  /\ i \in DOMAIN grid
  /\ \A b \in Busy : call[b].op # "reorder"
  /\ Request(i, "delete", i, <<>>)
  /\ CardUnchanged

SaveAlt(i) ==
  /\ call[i] = Idle /\ Click
  /\ i \in DOMAIN grid
  /\ Request(i, "alt", i, <<>>)
  /\ CardUnchanged

(* After success, or if core says that the photos are not what the grid    *)
(* shows, the product is read again; the card stays busy until then.       *)
CardAnswered(c) ==
  /\ Answered(c, "ok") \/ Answered(c, "stale")
  /\ Goes(c, "refreshing")
  /\ Issue(c, upload)
  /\ UNCHANGED <<row, object, lock, grid, listStale, upload, token, astray, clicks, faults>>

(* Any other error is shown on the card, and that is all. *)
CardFails(c) ==
  /\ \/ Answered(c, "failed") /\ UNCHANGED <<faults, astray>>
     \/ Answered(c, "ok") /\ Fault /\ astray' = (astray \/ call[c].op # "alt")
  /\ Done(c)
  /\ UNCHANGED <<row, object, lock, grid, listStale, upload, token, refresh, clicks>>

-----------------------------------------------------------------------------
(* Another administrator, who may also leave an upload unfinished. *)

OtherActs(c) ==
  /\ call[c] = Idle /\ Click
  /\ \/ With("none") # {} /\ Request(c, "upload", NoImage, <<>>) /\ UNCHANGED astray
     \/ (\E i \in Rows : Request(c, "delete", i, <<>>)) /\ astray' = TRUE
     \/ /\ \E i, j \in With("ready") :
             Shown[j] = Shown[i] + 1 /\ Request(c, "reorder", NoImage, Swapped(Shown, i, j))
        /\ astray' = TRUE
  /\ UNCHANGED <<row, object, lock, grid, listStale, upload, token, refresh, faults>>

OtherAnswered(c) ==
  /\ call[c].at \in Answers
  /\ Done(c)
  /\ UNCHANGED <<row, object, lock, tabVars, clicks, faults>>

(* The database or the process fails under a request; its transaction is   *)
(* rolled back, what it did before is not.                                 *)
ServerError(c) ==
  /\ call[c].op # "none" /\ call[c].at \notin Answers \cup {"refreshing", "settled"} /\ Fault
  /\ Answer(c, "failed") /\ lock' = lock \ {c}
  /\ astray' = (astray \/ call[c].at = "dropDeleted")
  /\ UNCHANGED <<row, object, grid, listStale, upload, token, refresh, clicks>>

-----------------------------------------------------------------------------
Core(c) == CoreStep(c) /\ UNCHANGED <<tabVars, clicks, faults>>

TabStep(c) ==
  \/ GetProduct(c) \/ Apply(c)
  \/ c \in File /\ ((\E b \in {"good", "bad"} : Put(c, b)) \/ Confirmed(c) \/ BatchSettled(c))
  \/ c \in Image /\ CardAnswered(c)

Next ==
  \/ \E c \in Caller : Core(c) \/ TabStep(c) \/ RefreshFails(c) \/ RefreshAgain(c) \/ ServerError(c)
  \/ \E f \in File : Upload(f) \/ UploadFails(f)
  \/ \E i \in Image : Remove(i) \/ SaveAlt(i) \/ CardFails(i) \/ \E j \in Image : Move(i, j)
  \/ \E c \in Other : OtherActs(c) \/ OtherAnswered(c)
  \/ \E i \in Image : Age(i) /\ UNCHANGED <<tabVars, clicks, faults>>

Spec == Init /\ [][Next]_vars

(* A read of the product is answered, or the connection breaks; so are the *)
(* requests of the other files of a batch.                                 *)
Fairness ==
  /\ \A c \in Caller : WF_vars(GetProduct(c) \/ Apply(c))
  /\ \A f \in File : WF_vars(BatchSettled(f))

FairSpec == Spec /\ Fairness

-----------------------------------------------------------------------------
TypeOK ==
  /\ CoreTypeOK
  /\ DOMAIN grid \subseteq Image
  /\ listStale \in BOOLEAN /\ astray \in BOOLEAN
  /\ upload \in [File -> Stage] /\ token \in [File -> Image \cup {NoImage}]
  /\ \A c \in Caller :
       /\ refresh[c].at \in {"none", "sent", "read"}
       /\ DOMAIN refresh[c].data \subseteq Image /\ refresh[c].files \subseteq File
  /\ clicks \in 0..MaxClicks /\ faults \in 0..MaxFaults

(* The grid is trusted only while it matches core: whenever a card can be  *)
(* moved, the order shown is core's, unless core has changed behind the    *)
(* tab's back (an answer lost, another administrator).                     *)
UnlockedGridIsCurrent == ~GridLocked /\ Busy = {} /\ ~astray => grid = Shown

(* A move of this tab never undoes an earlier one: what it changes in core *)
(* is that two neighbours change places.                                   *)
MovesSwapNeighbours ==
  [][\A c \in Image :
       At(c, "reorder", "write") /\ call'[c].at = "ok" /\ ~astray =>
         \E i, j \in With("ready") :
           Shown[j] = Shown[i] + 1 /\ Shown' = Swapped(Shown, i, j)]_vars

(* A photo that core has saved does not stay "Saved" for ever: it shows up *)
(* in the grid, or its row says that the list could not be refreshed.      *)
SavedIsShown ==
  \A f \in File : upload[f] = "saved" ~> upload[f] \in {"cleared", "refresh-error"}
=============================================================================
