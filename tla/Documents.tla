------------------------------- MODULE Documents -------------------------------
(***************************************************************************)
(* Vouchers (packages/documents: documents-service.ts, voucher-data.ts,    *)
(* store.ts; apps/api/src/documents/voucher.controller.ts).  A voucher is  *)
(* rendered from rows of two databases, put into the object store and then *)
(* recorded in the tenant's document table; a download serves the recorded *)
(* object and renders afresh only when there is none.  Downloads of the    *)
(* api and renders of the worker's delivery sweep run at once.             *)
(*                                                                         *)
(* A call is cut at its awaits.  A PDF is the facts it shows, and its hash *)
(* is the PDF: equal facts render to equal bytes.                          *)
(***************************************************************************)
EXTENDS Naturals

CONSTANTS
    Bookings,       \* bookings of one hotel item each
    AgencyOf,       \* the agency of each
    AllAgencies,    \* agencies that ask
    Locales,        \* which language section leads
    Primary,        \* the locale of a delivery, and of a download that names none
    Calls,          \* calls of renderVoucher and voucherPdf
    Nothing,        \* no row, object, booking, agency or locale
    MaxEdits,       \* bound: changes of the tenant's branding
    MaxFaults       \* bound: calls that die or fail, and objects the store loses

ASSUME DocumentsAssumption ==
    /\ AgencyOf \in [Bookings -> AllAgencies] /\ Primary \in Locales
    /\ Nothing \notin Bookings \cup AllAgencies \cup Locales
ASSUME DocumentsBoundAssumption == MaxEdits \in Nat /\ MaxFaults \in Nat

VARIABLES
    item,           \* state of the booking item
    brand,          \* edition of tenants.branding in the control plane
    objects,        \* the object store, by storage key
    documents,      \* document rows, by item and locale
    calls,
    torn,           \* keys two renders wrote at once, or one that died half-way
    lost,           \* keys whose object the store lost once
    faults

documentVars == <<item, brand, objects, documents, calls, torn, lost, faults>>

Pdfs == [booking : Bookings, locale : Locales, brand : 0..MaxEdits]
DocumentKeys == Bookings \X Locales
ASSUME PdfsAssumption == Nothing \notin Pdfs \cup DocumentKeys

\* One row per (item, kind, locale); of its columns the handle and the hash.
DocumentRows == [storageKey : DocumentKeys, contentSha256 : Pdfs]

InHand == {"asked", "scoped", "found", "rendering", "loading", "loaded", "put"}

CallStates ==
    [pc      : {"idle", "served"} \cup InHand,
     booking : Bookings \cup {Nothing},
     locale  : Locales \cup {Nothing},
     agency  : AllAgencies \cup {Nothing},  \* Nothing for a delivery
     key     : DocumentKeys \cup {Nothing},      \* of the row that was found
     bytes   : Pdfs \cup {Nothing},
     late    : BOOLEAN]                 \* the booking was cancelled before the call

NoCall == [pc |-> "idle", booking |-> Nothing, locale |-> Nothing, agency |-> Nothing,
           key |-> Nothing, bytes |-> Nothing, late |-> FALSE]

\* The caller gets an error and nothing is left of the call.
Refuse(c) == calls' = [calls EXCEPT ![c] = NoCall]

Become(c, pc) == calls' = [calls EXCEPT ![c].pc = pc]
-----------------------------------------------------------------------------
(* The world around the calls.                                             *)

\* What the booking engine does to an item; one that is never confirmed is
\* refused a voucher whatever else becomes of it.
ItemMoves(b) ==
    /\ \/ item[b] = "pending_confirmation" /\ item' = [item EXCEPT ![b] = "confirmed"]
       \/ item[b] = "confirmed" /\ item' = [item EXCEPT ![b] = "cancelled"]
    /\ UNCHANGED <<brand, objects, documents, calls, torn, lost, faults>>

EditBrand ==
    /\ brand < MaxEdits
    /\ brand' = brand + 1
    /\ UNCHANGED <<item, objects, documents, calls, torn, lost, faults>>

LoseObject(k) ==
    /\ faults < MaxFaults /\ objects[k] # Nothing
    /\ objects' = [objects EXCEPT ![k] = Nothing]
    /\ lost' = lost \cup {k}
    /\ faults' = faults + 1
    /\ UNCHANGED <<item, brand, documents, calls, torn>>
-----------------------------------------------------------------------------
(* voucher, the route, and voucherPdf                                      *)

\* The route asks with the agency of the caller's session.
Download(c) ==
    /\ calls[c].pc \notin InHand
    /\ \E b \in Bookings, l \in Locales, a \in AllAgencies :
          calls' = [calls EXCEPT ![c] =
              [NoCall EXCEPT !.pc = "asked", !.booking = b, !.locale = l, !.agency = a,
                             !.late = (item[b] = "cancelled")]]
    /\ UNCHANGED <<item, brand, objects, documents, torn, lost, faults>>

\* The scope gate: getBooking, an opaque not found outside the agency.
Scope(c) ==
    /\ calls[c].pc = "asked"
    /\ IF AgencyOf[calls[c].booking] = calls[c].agency THEN Become(c, "scoped")
       ELSE Refuse(c)
    /\ UNCHANGED <<item, brand, objects, documents, torn, lost, faults>>

FindRow(c) ==
    /\ calls[c].pc = "scoped"
    /\ LET row == documents[<<calls[c].booking, calls[c].locale>>]
       IN  IF row = Nothing THEN Become(c, "rendering")
           ELSE calls' = [calls EXCEPT ![c].pc = "found", ![c].key = row.storageKey]
    /\ UNCHANGED <<item, brand, objects, documents, torn, lost, faults>>

\* A recorded object is served whatever became of the booking since.
Fetch(c) ==
    /\ calls[c].pc = "found"
    /\ LET bytes == objects[calls[c].key]
       IN  IF bytes = Nothing THEN Become(c, "rendering")
           ELSE calls' = [calls EXCEPT ![c].pc = "served", ![c].bytes = bytes]
    /\ UNCHANGED <<item, brand, objects, documents, torn, lost, faults>>
-----------------------------------------------------------------------------
(* renderVoucher                                                           *)

\* The sweep renders what it claimed: a booking with a confirmed event.
Deliver(c) ==
    /\ calls[c].pc \notin InHand
    /\ \E b \in Bookings :
          /\ item[b] \in {"confirmed", "cancelled"}
          /\ calls' = [calls EXCEPT ![c] =
                [NoCall EXCEPT !.pc = "rendering", !.booking = b, !.locale = Primary,
                               !.late = (item[b] = "cancelled")]]
    /\ UNCHANGED <<item, brand, objects, documents, torn, lost, faults>>

LoadItemAnyState(c) ==                                               \* mutant
    /\ calls[c].pc = "rendering"
    /\ Become(c, "loading")
    /\ UNCHANGED <<item, brand, objects, documents, torn, lost, faults>>

\* VOUCHERABLE_STATES, of which the engine reaches one; else voucher_not_available.
LoadItem(c) ==
    /\ calls[c].pc = "rendering"
    /\ IF item[calls[c].booking] = "confirmed" THEN Become(c, "loading")
       ELSE Refuse(c)
    /\ UNCHANGED <<item, brand, objects, documents, torn, lost, faults>>

\* The branding is read later than the item, in another database.
LoadBrand(c) ==
    /\ calls[c].pc = "loading"
    /\ calls' = [calls EXCEPT
          ![c].pc = "loaded",
          ![c].bytes = [booking |-> calls[c].booking, locale |-> calls[c].locale,
                        brand |-> brand]]
    /\ UNCHANGED <<item, brand, objects, documents, torn, lost, faults>>

StorageKey(b, l) == <<b, l>>

\* Another render of the voucher has put its bytes and not yet recorded them.
Halfway(k) ==
    \E c \in Calls : calls[c].pc = "put" /\ StorageKey(calls[c].booking, calls[c].locale) = k

PutObject(c) ==
    /\ calls[c].pc = "loaded"
    /\ LET key == StorageKey(calls[c].booking, calls[c].locale)
       IN  /\ objects' = [objects EXCEPT ![key] = calls[c].bytes]
           /\ torn' = IF Halfway(key) THEN torn \cup {key} ELSE torn \ {key}
    /\ Become(c, "put")
    /\ UNCHANGED <<item, brand, documents, lost, faults>>

RecordOnce(c) ==                                                     \* mutant
    /\ calls[c].pc = "put"
    /\ LET key == <<calls[c].booking, calls[c].locale>>
       IN  documents' = [documents EXCEPT ![key] =
              IF @ # Nothing THEN @
              ELSE [storageKey |-> StorageKey(key[1], key[2]), contentSha256 |-> calls[c].bytes]]
    /\ Become(c, "served")
    /\ UNCHANGED <<item, brand, objects, torn, lost, faults>>

\* A row that exists gets the new handle and hash.
RecordDocument(c) ==
    /\ calls[c].pc = "put"
    /\ LET key == <<calls[c].booking, calls[c].locale>>
       IN  documents' = [documents EXCEPT ![key] =
              [storageKey |-> StorageKey(key[1], key[2]), contentSha256 |-> calls[c].bytes]]
    /\ Become(c, "served")
    /\ UNCHANGED <<item, brand, objects, torn, lost, faults>>

\* A database, the renderer or the store fails, or the process dies: what was
\* done stays done.
Fail(c) ==
    /\ calls[c].pc \in InHand
    /\ faults < MaxFaults
    /\ faults' = faults + 1
    /\ torn' = torn \cup
          {k \in DocumentKeys : calls[c].pc = "put" /\ k = StorageKey(calls[c].booking, calls[c].locale)}
    /\ Refuse(c)
    /\ UNCHANGED <<item, brand, objects, documents, lost>>
-----------------------------------------------------------------------------
DocumentsInit ==
    /\ item = [b \in Bookings |-> "pending_confirmation"]
    /\ brand = 0
    /\ objects = [k \in DocumentKeys |-> Nothing]
    /\ documents = [k \in DocumentKeys |-> Nothing]
    /\ calls = [c \in Calls |-> NoCall]
    /\ torn = {}
    /\ lost = {}
    /\ faults = 0

RenderStep(c) == LoadItem(c) \/ LoadBrand(c) \/ PutObject(c) \/ RecordDocument(c) \/ Fail(c)
DownloadStep(c) == Download(c) \/ Scope(c) \/ FindRow(c) \/ Fetch(c)

DocumentsNext ==
    \/ \E b \in Bookings : ItemMoves(b)
    \/ EditBrand
    \/ \E k \in DocumentKeys : LoseObject(k)
    \/ \E c \in Calls : DownloadStep(c) \/ Deliver(c) \/ RenderStep(c)

DocumentsSpec == DocumentsInit /\ [][DocumentsNext]_documentVars
-----------------------------------------------------------------------------
(* Properties.                                                             *)

\* The type invariant.
DocumentsTypeOK ==
    /\ item \in [Bookings -> {"pending_confirmation", "confirmed", "cancelled"}]
    /\ brand \in 0..MaxEdits /\ faults \in 0..MaxFaults
    /\ objects \in [DocumentKeys -> Pdfs \cup {Nothing}]
    /\ documents \in [DocumentKeys -> DocumentRows \cup {Nothing}]
    /\ calls \in [Calls -> CallStates]
    /\ torn \subseteq DocumentKeys /\ lost \subseteq DocumentKeys

\* put comes before the upsert (documents-service.ts:79-104) and "contentSha256
\* pins them for audit and byte-stability checks" (schema.ts:331-333): a document
\* row names an object that is there, whatever call died between the two, unless
\* the store lost it since; and while no render is half-way the hash of a row is
\* that of its object, through every change of the branding, unless two renders
\* of the voucher overlapped there or one died.
RowPinsItsObject ==
    \A k \in DocumentKeys : documents[k] # Nothing =>
        /\ objects[documents[k].storageKey] # Nothing \/ documents[k].storageKey \in lost
        /\ objects[k] # Nothing /\ ~Halfway(k) /\ k \notin torn =>
              documents[k].contentSha256 = objects[k]

\* A PDF that leaves the service, downloaded or mailed, is the voucher of the
\* booking asked for, led by the language asked for; the booking is one of the
\* caller's agency and was confirmed; and for a booking that was cancelled
\* before the call nothing is rendered afresh: what is served then was recorded
\* while it stood (CancelledHaveNoVoucher).
ServedAsAsked ==
    \A c \in Calls : calls[c].pc = "served" =>
        /\ calls[c].bytes.booking = calls[c].booking /\ calls[c].bytes.locale = calls[c].locale
        /\ calls[c].agency \in {Nothing, AgencyOf[calls[c].booking]}
        /\ item[calls[c].booking] # "pending_confirmation"
        /\ calls[c].late => calls[c].key # Nothing

\* "Download the bilingual voucher PDF for a confirmed booking", "The booking has
\* no voucher (not confirmed)" (voucher.controller.ts:75 and 83): no download
\* that begins after the booking was cancelled is served.
CancelledHaveNoVoucher ==
    \A c \in Calls : calls[c].pc = "served" /\ calls[c].agency # Nothing => ~calls[c].late
=============================================================================
