--------------------------- MODULE DocumentsProofs ---------------------------
(***************************************************************************)
(* Theorems about the vouchers, for every number of bookings, locales,     *)
(* calls, edits of the branding and faults.                                *)
(*                                                                         *)
(* A call between its awaits holds what it read; the argument is what may  *)
(* still be said of that when it is used, and that of all overlapping      *)
(* renders of a voucher only the last that nobody disturbed may leave an   *)
(* unmarked row.                                                           *)
(***************************************************************************)
EXTENDS Documents, TLAPS

KeyOf(c) == StorageKey(calls[c].booking, calls[c].locale)

WasConfirmed(b) == item[b] \in {"confirmed", "cancelled"}

\* What a call knows at each of its awaits.
CallHolds(c) ==
    /\ calls[c].pc # "idle" => calls[c].booking \in Bookings /\ calls[c].locale \in Locales
    /\ calls[c].pc \notin {"idle", "asked"} =>
          calls[c].agency \in {Nothing, AgencyOf[calls[c].booking]}
    /\ calls[c].pc = "found" => calls[c].key = KeyOf(c)
    /\ calls[c].pc \in {"found", "loading", "loaded", "put", "served"} =>
          WasConfirmed(calls[c].booking)
    /\ calls[c].pc \in {"loaded", "put", "served"} =>
          /\ calls[c].bytes \in Pdfs
          /\ calls[c].bytes.booking = calls[c].booking
          /\ calls[c].bytes.locale = calls[c].locale
    /\ calls[c].late =>
          /\ item[calls[c].booking] = "cancelled"
          /\ calls[c].pc \notin {"idle", "loading", "loaded", "put"}
          /\ calls[c].pc = "served" => calls[c].key # Nothing

\* An object, once put, is there until the store loses it.
Stored(k) == objects[k] # Nothing \/ k \in lost

\* A render that has put its bytes and is alone finds them there.
PutHolds(c) ==
    calls[c].pc = "put" =>
        /\ Stored(KeyOf(c))
        /\ objects[KeyOf(c)] # Nothing /\ KeyOf(c) \notin torn =>
              /\ objects[KeyOf(c)] = calls[c].bytes
              /\ \A d \in Calls : calls[d].pc = "put" /\ KeyOf(d) = KeyOf(c) => d = c

\* A row is about its own object, and an object about its own key.
RowHolds(k) ==
    /\ documents[k] # Nothing =>
          /\ documents[k].storageKey = k
          /\ WasConfirmed(k[1])
          /\ Stored(k)
          /\ objects[k] # Nothing /\ ~Halfway(k) /\ k \notin torn =>
                documents[k].contentSha256 = objects[k]
    /\ objects[k] # Nothing => objects[k].booking = k[1] /\ objects[k].locale = k[2]

IInv ==
    /\ DocumentsTypeOK
    /\ \A c \in Calls : CallHolds(c) /\ PutHolds(c)
    /\ \A k \in DocumentKeys : RowHolds(k)

-----------------------------------------------------------------------------
\* A step of one call that neither enters nor leaves the gap between put and
\* record keeps every row and every other call.
LEMMA QuietCall ==
    ASSUME IInv, NEW c \in Calls, NEW next \in CallStates,
           calls' = [calls EXCEPT ![c] = next],
           calls[c].pc # "put", next.pc # "put",
           UNCHANGED <<item, brand, objects, documents, torn, lost>>,
           faults' \in 0..MaxFaults, CallHolds(c)'
    PROVE  IInv'
<1>1. /\ calls \in [Calls -> CallStates] /\ calls' \in [Calls -> CallStates]
      /\ calls'[c] = next
      /\ \A d \in Calls \ {c} : calls'[d] = calls[d]
  BY DEF IInv, DocumentsTypeOK
<1>2. DocumentsTypeOK'
  BY <1>1 DEF IInv, DocumentsTypeOK
<1>3. \A d \in Calls : calls'[d].pc = "put" <=> calls[d].pc = "put"
  BY <1>1
<1>4. \A d \in Calls : calls[d].pc = "put" => calls'[d] = calls[d]
  BY <1>1
<1>5. \A d \in Calls : CallHolds(d)'
  <2>1. ASSUME NEW d \in Calls \ {c}
        PROVE  CallHolds(d)'
    <3>1. CallHolds(d) /\ calls'[d] = calls[d] /\ item' = item
      BY <1>1 DEF IInv
    <3> QED
      BY <3>1 DEF CallHolds, WasConfirmed, KeyOf, StorageKey
  <2> QED
    BY <2>1
<1>6. \A k \in DocumentKeys : Halfway(k)' <=> Halfway(k)
  BY <1>3, <1>4 DEF Halfway, StorageKey
<1>7. \A d \in Calls : PutHolds(d)'
  <2>1. ASSUME NEW d \in Calls, calls'[d].pc = "put"
        PROVE  PutHolds(d)'
    <3>1. PutHolds(d) /\ calls[d].pc = "put" /\ calls'[d] = calls[d]
      BY <1>3, <1>4, <2>1 DEF IInv
    <3> QED
      BY <1>3, <1>4, <3>1 DEF PutHolds, KeyOf, StorageKey, Stored
  <2> QED
    BY <2>1 DEF PutHolds
<1>8. \A k \in DocumentKeys : RowHolds(k)'
  BY <1>6 DEF IInv, RowHolds, Stored, WasConfirmed
<1> QED
  BY <1>2, <1>5, <1>7, <1>8 DEF IInv

\* What the rules need to know of a call that has begun.
LEMMA KeyOfCall ==
    ASSUME IInv, NEW c \in Calls, calls[c].pc # "idle"
    PROVE  /\ calls[c] \in CallStates
           /\ KeyOf(c) = <<calls[c].booking, calls[c].locale>> /\ KeyOf(c) \in DocumentKeys
           /\ KeyOf(c)[1] = calls[c].booking /\ KeyOf(c)[2] = calls[c].locale
  BY DEF IInv, DocumentsTypeOK, CallHolds, KeyOf, StorageKey, DocumentKeys

\* The idle call.
LEMMA NoCallTyped == NoCall \in CallStates /\ NoCall.pc = "idle"
  BY DEF NoCall, CallStates

-----------------------------------------------------------------------------
\* Bookings move, brands are edited and objects are lost.
LEMMA WorldKeeps ==
    ASSUME IInv,
           \/ \E b \in Bookings : ItemMoves(b)
           \/ EditBrand
           \/ \E k \in DocumentKeys : LoseObject(k)
           \/ UNCHANGED documentVars
    PROVE  IInv'
<1>1. calls' = calls /\ documents' = documents /\ torn' = torn /\ lost \subseteq lost'
  BY DEF ItemMoves, EditBrand, LoseObject, documentVars
<1>2. DocumentsTypeOK'
  <2>1. CASE \E b \in Bookings : ItemMoves(b)
    BY <2>1 DEF ItemMoves, IInv, DocumentsTypeOK
  <2>2. CASE EditBrand
    BY <2>2, DocumentsBoundAssumption DEF EditBrand, IInv, DocumentsTypeOK
  <2>3. CASE \E k \in DocumentKeys : LoseObject(k)
    BY <2>3, DocumentsBoundAssumption DEF LoseObject, IInv, DocumentsTypeOK
  <2>4. CASE UNCHANGED documentVars
    BY <2>4 DEF documentVars, IInv, DocumentsTypeOK
  <2> QED
    BY <2>1, <2>2, <2>3, <2>4
<1>3. \A b \in Bookings : /\ WasConfirmed(b) => WasConfirmed(b)'
                          /\ item[b] = "cancelled" => item'[b] = "cancelled"
  BY DEF ItemMoves, EditBrand, LoseObject, documentVars, WasConfirmed, IInv, DocumentsTypeOK
<1>4. \A k \in DocumentKeys : /\ objects'[k] # Nothing => objects'[k] = objects[k]
                              /\ Stored(k) => Stored(k)'
  BY DEF ItemMoves, EditBrand, LoseObject, documentVars, Stored, IInv, DocumentsTypeOK
<1>5. \A c \in Calls : CallHolds(c)'
  BY <1>1, <1>3 DEF IInv, CallHolds, KeyOf, StorageKey
<1>6. \A c \in Calls : PutHolds(c)'
  <2>1. ASSUME NEW c \in Calls, calls[c].pc = "put"
        PROVE  PutHolds(c)'
    <3>1. PutHolds(c) /\ KeyOf(c) \in DocumentKeys
      BY <2>1, KeyOfCall DEF IInv
    <3>2. \A d \in Calls : KeyOf(d)' = KeyOf(d)
      BY <1>1 DEF KeyOf, StorageKey
    <3> QED
      BY <1>1, <1>4, <3>1, <3>2 DEF PutHolds
  <2> QED
    BY <1>1, <2>1 DEF PutHolds
<1>7. \A k \in DocumentKeys : RowHolds(k)'
  <2>1. ASSUME NEW k \in DocumentKeys
        PROVE  RowHolds(k)'
    <3>1. RowHolds(k) /\ k[1] \in Bookings
      BY DEF IInv, DocumentKeys
    <3>2. Halfway(k)' <=> Halfway(k)
      BY <1>1 DEF Halfway
    <3> QED
      BY <1>1, <1>3, <1>4, <3>1, <3>2 DEF RowHolds
  <2> QED
    BY <2>1
<1> QED
  BY <1>2, <1>5, <1>6, <1>7 DEF IInv

\* The steps of a download, and of a render up to its put.
LEMMA QuietStepsKeep ==
    ASSUME IInv, NEW c \in Calls,
           DownloadStep(c) \/ Deliver(c) \/ LoadItem(c) \/ LoadBrand(c)
    PROVE  IInv'
<1>1. /\ calls \in [Calls -> CallStates] /\ calls[c] \in CallStates
      /\ CallHolds(c) /\ brand \in 0..MaxEdits /\ faults \in 0..MaxFaults
  BY DEF IInv, DocumentsTypeOK
<1>2. /\ UNCHANGED <<item, brand, objects, documents, torn, lost, faults>>
      /\ calls[c].pc # "put"
  BY DEF DownloadStep, Download, Scope, FindRow, Fetch, Deliver, LoadItem, LoadBrand, InHand
<1>3. ASSUME NEW next \in CallStates, calls' = [calls EXCEPT ![c] = next], next.pc # "put",
             CallHolds(c)'
      PROVE  IInv'
  BY <1>1, <1>2, <1>3, QuietCall
\* A call that is refused, or only goes on.
<1>4. CASE Refuse(c)
  <2>1. calls'[c] = NoCall
    BY <1>1, <1>4 DEF Refuse
  <2>2. CallHolds(c)'
    BY <2>1 DEF CallHolds, NoCall
  <2> QED
    BY <1>3, <1>4, <2>2, NoCallTyped DEF Refuse
<1>5. ASSUME NEW pc \in {"scoped", "rendering", "loading"}, Become(c, pc), calls[c].pc # "idle",
             pc = "loading" => item[calls[c].booking] = "confirmed",
             calls[c].agency \in {Nothing, AgencyOf[calls[c].booking]}
      PROVE  IInv'
  <2> DEFINE next == [calls[c] EXCEPT !.pc = pc]
  <2>1. next \in CallStates /\ next.pc = pc /\ calls' = [calls EXCEPT ![c] = next]
    BY <1>1, <1>5 DEF Become, CallStates, InHand
  <2>2. calls'[c] = next
    BY <1>1, <2>1
  <2>3. CallHolds(c)'
    BY <1>1, <1>2, <1>5, <2>2 DEF CallHolds, CallStates, WasConfirmed
  <2> HIDE DEF next
  <2> QED
    BY <1>3, <1>5, <2>1, <2>3
<1>6. CASE Download(c)
  <2>1. PICK b \in Bookings, l \in Locales, a \in AllAgencies :
            calls' = [calls EXCEPT ![c] =
                [NoCall EXCEPT !.pc = "asked", !.booking = b, !.locale = l, !.agency = a,
                               !.late = (item[b] = "cancelled")]]
    BY <1>6 DEF Download
  <2> DEFINE next == [NoCall EXCEPT !.pc = "asked", !.booking = b, !.locale = l, !.agency = a,
                                    !.late = (item[b] = "cancelled")]
  <2>2. /\ next \in CallStates /\ next.pc = "asked" /\ next.booking = b /\ next.locale = l
        /\ next.late = (item[b] = "cancelled")
    BY DEF NoCall, CallStates, InHand
  <2>3. calls'[c] = next
    BY <1>1, <2>1
  <2> HIDE DEF next
  <2>4. CallHolds(c)'
    BY <1>2, <2>2, <2>3 DEF CallHolds
  <2> QED
    BY <1>3, <2>1, <2>2, <2>4 DEF next
<1>7. CASE Scope(c)
  BY <1>4, <1>5, <1>7 DEF Scope
<1>8. CASE FindRow(c)
  <2> DEFINE k == KeyOf(c)
             row == documents[k]
  <2>1. calls[c].pc = "scoped" /\ k = <<calls[c].booking, calls[c].locale>>
    BY <1>8 DEF FindRow, KeyOf, StorageKey
  <2>2. k \in DocumentKeys /\ k[1] = calls[c].booking /\ RowHolds(k)
    BY <2>1, KeyOfCall DEF IInv
  <2>3. calls[c].agency \in {Nothing, AgencyOf[calls[c].booking]}
    BY <1>1, <2>1 DEF CallHolds
  <2>4. CASE row = Nothing
    BY <1>5, <1>8, <2>1, <2>3, <2>4 DEF FindRow
  <2>5. CASE row # Nothing
    <3>1. row.storageKey = k /\ WasConfirmed(calls[c].booking)
      BY <2>2, <2>5 DEF RowHolds
    <3> DEFINE next == [calls[c] EXCEPT !.pc = "found", !.key = k]
    <3>2. calls' = [calls EXCEPT ![c] = next]
      BY <1>1, <1>8, <2>1, <2>5, <3>1 DEF FindRow
    <3>3. /\ next \in CallStates /\ next.pc = "found" /\ next.key = k
          /\ next.booking = calls[c].booking /\ next.locale = calls[c].locale
          /\ next.agency = calls[c].agency /\ next.late = calls[c].late
      BY <1>1, <2>2 DEF CallStates, InHand
    <3>4. calls'[c] = next
      BY <1>1, <3>2
    <3> HIDE DEF next
    <3>5. CallHolds(c)'
      BY <1>1, <1>2, <2>1, <2>3, <3>1, <3>3, <3>4
      DEF CallHolds, KeyOf, StorageKey, WasConfirmed
    <3> QED
      BY <1>3, <3>2, <3>3, <3>5
  <2> QED
    BY <2>4, <2>5
<1>9. CASE Fetch(c)
  <2> DEFINE k == KeyOf(c)
             bytes == objects[k]
  <2>1. calls[c].pc = "found" /\ calls[c].key = k /\ WasConfirmed(calls[c].booking)
    BY <1>1, <1>9 DEF Fetch, CallHolds
  <2>2. k \in DocumentKeys /\ k[1] = calls[c].booking /\ k[2] = calls[c].locale /\ RowHolds(k)
    BY <2>1, KeyOfCall DEF IInv
  <2>3. calls[c].agency \in {Nothing, AgencyOf[calls[c].booking]}
    BY <1>1, <2>1 DEF CallHolds
  <2>4. CASE bytes = Nothing
    BY <1>5, <1>9, <2>1, <2>3, <2>4 DEF Fetch
  <2>5. CASE bytes # Nothing
    <3>1. bytes \in Pdfs /\ bytes.booking = calls[c].booking /\ bytes.locale = calls[c].locale
      BY <2>2, <2>5 DEF RowHolds, IInv, DocumentsTypeOK
    <3> DEFINE next == [calls[c] EXCEPT !.pc = "served", !.bytes = bytes]
    <3>2. calls' = [calls EXCEPT ![c] = next]
      BY <1>1, <1>9, <2>1, <2>5 DEF Fetch
    <3>3. /\ next \in CallStates /\ next.pc = "served" /\ next.bytes = bytes
          /\ next.key = k /\ k # Nothing
          /\ next.booking = calls[c].booking /\ next.locale = calls[c].locale
          /\ next.agency = calls[c].agency /\ next.late = calls[c].late
      BY <1>1, <2>1, <2>2, <3>1, PdfsAssumption DEF CallStates, InHand
    <3>4. calls'[c] = next
      BY <1>1, <3>2
    <3> HIDE DEF next, bytes
    <3>5. CallHolds(c)'
      BY <1>1, <1>2, <2>1, <2>3, <3>1, <3>3, <3>4 DEF CallHolds, WasConfirmed
    <3> QED
      BY <1>3, <3>2, <3>3, <3>5
  <2> QED
    BY <2>4, <2>5
<1>10. CASE Deliver(c)
  <2>1. PICK b \in Bookings :
            /\ WasConfirmed(b)
            /\ calls' = [calls EXCEPT ![c] =
                  [NoCall EXCEPT !.pc = "rendering", !.booking = b, !.locale = Primary,
                                 !.late = (item[b] = "cancelled")]]
    BY <1>10 DEF Deliver, WasConfirmed
  <2> DEFINE next == [NoCall EXCEPT !.pc = "rendering", !.booking = b, !.locale = Primary,
                                    !.late = (item[b] = "cancelled")]
  <2>2. /\ next \in CallStates /\ next.pc = "rendering" /\ next.booking = b
        /\ next.locale \in Locales /\ next.agency = Nothing /\ next.late = (item[b] = "cancelled")
    BY DocumentsAssumption DEF NoCall, CallStates, InHand
  <2>3. calls'[c] = next
    BY <1>1, <2>1
  <2> HIDE DEF next
  <2>4. CallHolds(c)'
    BY <1>2, <2>2, <2>3 DEF CallHolds
  <2> QED
    BY <1>3, <2>1, <2>2, <2>4 DEF next
<1>11. CASE LoadItem(c)
  <2>1. /\ calls[c].pc = "rendering" /\ calls[c].agency \in {Nothing, AgencyOf[calls[c].booking]}
    BY <1>1, <1>11 DEF LoadItem, CallHolds
  <2> QED
    BY <1>4, <1>5, <1>11, <2>1 DEF LoadItem
<1>12. CASE LoadBrand(c)
  <2> DEFINE bytes == [booking |-> calls[c].booking, locale |-> calls[c].locale, brand |-> brand]
             next == [calls[c] EXCEPT !.pc = "loaded", !.bytes = bytes]
  <2>1. /\ calls[c].pc = "loading" /\ WasConfirmed(calls[c].booking) /\ calls[c].late = FALSE
        /\ calls[c].booking \in Bookings /\ calls[c].locale \in Locales
        /\ calls[c].agency \in {Nothing, AgencyOf[calls[c].booking]}
    BY <1>1, <1>12 DEF LoadBrand, CallHolds, CallStates
  <2>2. calls' = [calls EXCEPT ![c] = next]
    BY <1>1, <1>12 DEF LoadBrand
  <2>3. bytes \in Pdfs /\ bytes.booking = calls[c].booking /\ bytes.locale = calls[c].locale
    BY <1>1, <2>1 DEF Pdfs
  <2> HIDE DEF bytes
  <2>4. /\ next \in CallStates /\ next.pc = "loaded" /\ next.bytes = bytes
        /\ next.booking = calls[c].booking /\ next.locale = calls[c].locale
        /\ next.agency = calls[c].agency /\ next.late = calls[c].late
    BY <1>1, <2>3 DEF CallStates, InHand
  <2>5. calls'[c] = next
    BY <1>1, <2>2
  <2> HIDE DEF next
  <2>6. CallHolds(c)'
    BY <1>2, <2>1, <2>3, <2>4, <2>5 DEF CallHolds, WasConfirmed
  <2> QED
    BY <1>3, <2>2, <2>4, <2>6
<1> QED
  BY <1>6, <1>7, <1>8, <1>9, <1>10, <1>11, <1>12 DEF DownloadStep

\* What one call's step means for the others.
LEMMA OtherCalls ==
    ASSUME IInv, NEW c \in Calls, NEW next \in CallStates,
           calls' = [calls EXCEPT ![c] = next], UNCHANGED item, CallHolds(c)'
    PROVE  /\ calls' \in [Calls -> CallStates] /\ calls'[c] = next
           /\ \A d \in Calls \ {c} : calls'[d] = calls[d] /\ KeyOf(d)' = KeyOf(d)
           /\ \A d \in Calls : CallHolds(d)'
<1>1. /\ calls' \in [Calls -> CallStates] /\ calls'[c] = next
      /\ \A d \in Calls \ {c} : calls'[d] = calls[d]
  BY DEF IInv, DocumentsTypeOK
<1>2. \A d \in Calls \ {c} : KeyOf(d)' = KeyOf(d)
  BY <1>1 DEF KeyOf, StorageKey
<1>3. ASSUME NEW d \in Calls \ {c}
      PROVE  CallHolds(d)'
  <2>1. CallHolds(d) /\ calls'[d] = calls[d]
    BY <1>1 DEF IInv
  <2> QED
    BY <2>1 DEF CallHolds, WasConfirmed, KeyOf, StorageKey
<1> QED
  BY <1>1, <1>2, <1>3

\* A render puts its bytes: if another is half-way there, the object is torn.
LEMMA PutKeeps ==
    ASSUME IInv, NEW c \in Calls, PutObject(c)
    PROVE  IInv'
<1>a. PICK key : key = KeyOf(c)
  OBVIOUS
<1>b. PICK bytes : bytes = calls[c].bytes
  OBVIOUS
<1> DEFINE next == [calls[c] EXCEPT !.pc = "put"]
<1>1. /\ calls[c].pc = "loaded" /\ calls' = [calls EXCEPT ![c].pc = "put"]
      /\ objects' = [objects EXCEPT ![key] = bytes]
      /\ torn' = IF Halfway(key) THEN torn \cup {key} ELSE torn \ {key}
      /\ UNCHANGED <<item, brand, documents, lost, faults>>
  BY <1>a, <1>b DEF PutObject, Become, KeyOf
<1>2. /\ calls[c] \in CallStates /\ key \in DocumentKeys
      /\ key[1] = calls[c].booking /\ key[2] = calls[c].locale
  BY <1>1, <1>a, KeyOfCall
<1>3. /\ CallHolds(c) /\ bytes \in Pdfs /\ bytes # Nothing
      /\ bytes.booking = key[1] /\ bytes.locale = key[2]
  BY <1>1, <1>2, <1>b, PdfsAssumption DEF IInv, CallHolds
<1>4. /\ next \in CallStates /\ next.pc = "put" /\ next.bytes = bytes
      /\ next.booking = calls[c].booking /\ next.locale = calls[c].locale
      /\ next.agency = calls[c].agency /\ next.late = calls[c].late
  BY <1>2, <1>b DEF CallStates, InHand
<1>5. calls' = [calls EXCEPT ![c] = next] /\ calls'[c] = next
  BY <1>1 DEF IInv, DocumentsTypeOK
<1>6. CallHolds(c)'
  BY <1>1, <1>3, <1>4, <1>5 DEF CallHolds, WasConfirmed
<1>7. KeyOf(c)' = key
  BY <1>4, <1>5, <1>a DEF KeyOf, StorageKey
<1> HIDE DEF next
<1>8. /\ calls' \in [Calls -> CallStates]
      /\ \A d \in Calls \ {c} : calls'[d] = calls[d] /\ KeyOf(d)' = KeyOf(d)
      /\ \A d \in Calls : CallHolds(d)'
  BY <1>1, <1>4, <1>5, <1>6, OtherCalls
<1>9. /\ objects \in [DocumentKeys -> Pdfs \cup {Nothing}] /\ objects'[key] = bytes
      /\ \A k \in DocumentKeys \ {key} :
            objects'[k] = objects[k] /\ (k \in torn' <=> k \in torn)
  BY <1>1, <1>2 DEF IInv, DocumentsTypeOK
<1>10. DocumentsTypeOK'
  <2>1. torn' \subseteq DocumentKeys /\ objects' \in [DocumentKeys -> Pdfs \cup {Nothing}]
    BY <1>1, <1>2, <1>3 DEF IInv, DocumentsTypeOK
  <2> QED
    BY <1>1, <1>8, <2>1 DEF IInv, DocumentsTypeOK
<1>11. \A k \in DocumentKeys : Halfway(k)' <=> Halfway(k) \/ k = key
  BY <1>1, <1>4, <1>5, <1>7, <1>8 DEF Halfway, KeyOf
<1>12. \A k \in DocumentKeys : Stored(k) => Stored(k)'
  BY <1>1, <1>3, <1>9 DEF Stored
<1>13. PutHolds(c)'
  <2>1. Stored(key)'
    BY <1>3, <1>9 DEF Stored
  <2>2. ASSUME key \notin torn', NEW d \in Calls \ {c}, calls'[d].pc = "put"
        PROVE  KeyOf(d)' # key
    <3>1. ~Halfway(key)
      BY <1>1, <2>2
    <3> QED
      BY <1>8, <2>2, <3>1 DEF Halfway, KeyOf
  <2> QED
    BY <1>4, <1>5, <1>7, <1>9, <2>1, <2>2 DEF PutHolds
<1>14. ASSUME NEW d \in Calls \ {c}, calls'[d].pc = "put"
       PROVE  PutHolds(d)'
  <2>1. /\ calls'[d] = calls[d] /\ KeyOf(d)' = KeyOf(d) /\ calls[d].pc = "put"
        /\ PutHolds(d) /\ KeyOf(d) \in DocumentKeys
    BY <1>8, <1>14, KeyOfCall DEF IInv
  <2>2. CASE KeyOf(d) = key
    <3>1. Halfway(key)
      BY <2>1, <2>2 DEF Halfway, KeyOf
    <3> QED
      BY <1>1, <1>12, <2>1, <2>2, <3>1 DEF PutHolds
  <2>3. CASE KeyOf(d) # key
    BY <1>7, <1>8, <1>9, <1>12, <2>1, <2>3 DEF PutHolds
  <2> QED
    BY <2>2, <2>3
<1>15. ASSUME NEW k \in DocumentKeys
       PROVE  RowHolds(k)'
  <2>1. RowHolds(k) /\ (WasConfirmed(k[1]) => WasConfirmed(k[1])')
    BY <1>1 DEF IInv, WasConfirmed
  <2>2. CASE k = key
    BY <1>1, <1>3, <1>9, <1>11, <1>12, <2>1, <2>2 DEF RowHolds
  <2>3. CASE k # key
    BY <1>1, <1>9, <1>11, <1>12, <2>1, <2>3 DEF RowHolds
  <2> QED
    BY <2>2, <2>3
<1> QED
  BY <1>8, <1>10, <1>13, <1>14, <1>15 DEF IInv, PutHolds

\* A render leaves the gap between put and record, with a row or by failing.
LEMMA LeaveKeeps ==
    ASSUME IInv, NEW c \in Calls, NEW next \in CallStates,
           calls' = [calls EXCEPT ![c] = next], next.pc # "put", CallHolds(c)',
           UNCHANGED <<item, brand, objects, lost>>,
           faults' \in 0..MaxFaults, torn \subseteq torn', torn' \subseteq DocumentKeys,
           documents' \in [DocumentKeys -> DocumentRows \cup {Nothing}],
           \A k \in DocumentKeys :
              \/ RowHolds(k)'
              \/ documents'[k] = documents[k] /\ (calls[c].pc = "put" => k # KeyOf(c))
    PROVE  IInv'
<1>1. /\ calls' \in [Calls -> CallStates] /\ calls'[c] = next
      /\ \A d \in Calls \ {c} : calls'[d] = calls[d] /\ KeyOf(d)' = KeyOf(d)
      /\ \A d \in Calls : CallHolds(d)'
  BY OtherCalls
<1>2. DocumentsTypeOK'
  BY <1>1 DEF IInv, DocumentsTypeOK
<1>3. ASSUME NEW d \in Calls, calls'[d].pc = "put"
      PROVE  PutHolds(d)'
  <2>1. d # c /\ PutHolds(d)
    BY <1>1, <1>3 DEF IInv
  <2>2. calls'[d] = calls[d] /\ KeyOf(d)' = KeyOf(d)
    BY <1>1, <2>1
  <2> QED
    BY <1>1, <2>1, <2>2 DEF PutHolds, Stored
<1>4. ASSUME NEW k \in DocumentKeys, documents'[k] = documents[k],
             calls[c].pc = "put" => k # KeyOf(c)
      PROVE  RowHolds(k)'
  <2>1. RowHolds(k) /\ documents'[k] = documents[k]
    BY <1>4 DEF IInv
  <2>2. Halfway(k) => Halfway(k)'
    BY <1>1, <1>4 DEF Halfway, KeyOf
  <2> QED
    BY <2>1, <2>2 DEF RowHolds, WasConfirmed, Stored
<1> QED
  BY <1>1, <1>2, <1>3, <1>4 DEF IInv, PutHolds

LEMMA RecordKeeps ==
    ASSUME IInv, NEW c \in Calls, RecordDocument(c)
    PROVE  IInv'
<1>a. PICK key : key = KeyOf(c)
  OBVIOUS
<1> DEFINE row == [storageKey |-> key, contentSha256 |-> calls[c].bytes]
           next == [calls[c] EXCEPT !.pc = "served"]
<1>1. /\ calls[c].pc = "put" /\ calls' = [calls EXCEPT ![c].pc = "served"]
      /\ UNCHANGED <<item, brand, objects, torn, lost, faults>>
  BY DEF RecordDocument, Become
<1>2. calls[c] \in CallStates /\ key \in DocumentKeys /\ key = <<calls[c].booking, calls[c].locale>>
      /\ key[1] = calls[c].booking
  BY <1>1, <1>a, KeyOfCall
<1>3. documents' = [documents EXCEPT ![key] = row]
  BY <1>2, <1>a DEF RecordDocument, KeyOf, StorageKey
<1>4. CallHolds(c) /\ PutHolds(c)
  BY DEF IInv
<1>5. row \in DocumentRows /\ row.storageKey = key /\ row.contentSha256 = calls[c].bytes
  BY <1>1, <1>2, <1>4 DEF CallHolds, DocumentRows
<1>6. /\ next \in CallStates /\ next.pc = "served" /\ next.bytes = calls[c].bytes
      /\ next.booking = calls[c].booking /\ next.locale = calls[c].locale
      /\ next.agency = calls[c].agency /\ next.late = calls[c].late
  BY <1>2 DEF CallStates
<1>7. calls' = [calls EXCEPT ![c] = next] /\ calls'[c] = next
  BY <1>1 DEF IInv, DocumentsTypeOK
<1>8. CallHolds(c)'
  BY <1>1, <1>4, <1>6, <1>7 DEF CallHolds, WasConfirmed
<1> HIDE DEF row, next
<1>9. /\ documents' \in [DocumentKeys -> DocumentRows \cup {Nothing}] /\ documents'[key] = row
      /\ \A k \in DocumentKeys : documents'[k] = documents[k] \/ k = key
  BY <1>2, <1>3, <1>5 DEF IInv, DocumentsTypeOK
\* The render was alone there, or its object is marked.
<1>10. RowHolds(key)'
  <2>1. objects[key] # Nothing /\ key \notin torn => objects[key] = calls[c].bytes
    BY <1>1, <1>4, <1>a DEF PutHolds
  <2>2. WasConfirmed(key[1])' /\ Stored(key)'
    BY <1>1, <1>2, <1>4, <1>a DEF CallHolds, PutHolds, WasConfirmed, Stored
  <2>3. RowHolds(key)
    BY <1>2 DEF IInv
  <2> QED
    BY <1>1, <1>5, <1>9, <2>1, <2>2, <2>3 DEF RowHolds
<1>11. faults' \in 0..MaxFaults /\ torn' \subseteq DocumentKeys /\ torn \subseteq torn'
  BY <1>1 DEF IInv, DocumentsTypeOK
<1>12. \A k \in DocumentKeys :
          \/ RowHolds(k)'
          \/ documents'[k] = documents[k] /\ (calls[c].pc = "put" => k # KeyOf(c))
  BY <1>9, <1>10, <1>a
<1>13. next \in CallStates /\ next.pc # "put" /\ UNCHANGED <<item, brand, objects, lost>>
  BY <1>1, <1>6
<1>14. documents' \in [DocumentKeys -> DocumentRows \cup {Nothing}]
  BY <1>9
<1> QED
  BY <1>7, <1>8, <1>11, <1>12, <1>13, <1>14, LeaveKeeps

LEMMA FailKeeps ==
    ASSUME IInv, NEW c \in Calls, Fail(c)
    PROVE  IInv'
<1>a. PICK key : key = KeyOf(c)
  OBVIOUS
<1>1. /\ calls[c].pc \in InHand /\ calls' = [calls EXCEPT ![c] = NoCall]
      /\ torn' = torn \cup {k \in DocumentKeys : calls[c].pc = "put" /\ k = key}
      /\ UNCHANGED <<item, brand, objects, documents, lost>>
  BY <1>a DEF Fail, Refuse, KeyOf
<1>2. faults' \in 0..MaxFaults /\ torn' \subseteq DocumentKeys
  BY <1>1, DocumentsBoundAssumption DEF Fail, IInv, DocumentsTypeOK
<1>3. CallHolds(c)'
  BY <1>1 DEF IInv, DocumentsTypeOK, CallHolds, NoCall
<1>4. ASSUME calls[c].pc = "put"
      PROVE  RowHolds(key)'
  <2>1. key \in DocumentKeys /\ RowHolds(key) /\ key \in torn'
    BY <1>1, <1>4, <1>a, KeyOfCall DEF IInv
  <2> QED
    BY <1>1, <2>1 DEF RowHolds, WasConfirmed, Stored
<1>5. /\ documents' \in [DocumentKeys -> DocumentRows \cup {Nothing}] /\ torn \subseteq torn'
      /\ \A k \in DocumentKeys :
            \/ RowHolds(k)'
            \/ documents'[k] = documents[k] /\ (calls[c].pc = "put" => k # KeyOf(c))
  BY <1>1, <1>4, <1>a DEF IInv, DocumentsTypeOK
<1>6. NoCall \in CallStates /\ NoCall.pc # "put"
  BY NoCallTyped
<1>7. calls' = [calls EXCEPT ![c] = NoCall] /\ UNCHANGED <<item, brand, objects, lost>>
  BY <1>1
<1> QED
  BY <1>2, <1>3, <1>5, <1>6, <1>7, LeaveKeeps

-----------------------------------------------------------------------------
\* The invariant holds at first and through every step.
LEMMA AlwaysIInv == DocumentsSpec => []IInv
<1>1. DocumentsInit => IInv
  <2> SUFFICES ASSUME DocumentsInit
               PROVE  IInv
    OBVIOUS
  <2>1. DocumentsTypeOK
    BY NoCallTyped, DocumentsBoundAssumption DEF DocumentsInit, DocumentsTypeOK
  <2>2. \A c \in Calls : calls[c] = NoCall
    BY DEF DocumentsInit
  <2>3. \A c \in Calls : CallHolds(c) /\ PutHolds(c)
    BY <2>2 DEF CallHolds, PutHolds, NoCall
  <2>4. \A k \in DocumentKeys : RowHolds(k)
    BY DEF DocumentsInit, RowHolds
  <2> QED
    BY <2>1, <2>3, <2>4 DEF IInv
<1>2. IInv /\ [DocumentsNext]_documentVars => IInv'
  BY WorldKeeps, QuietStepsKeep, PutKeeps, RecordKeeps, FailKeeps DEF DocumentsNext, RenderStep
<1> QED
  BY <1>1, <1>2, PTL DEF DocumentsSpec

\* Type correctness: items, objects, rows and calls have their types whatever
\* overlaps, fails or is lost (documents-service.ts).
THEOREM DocumentsTyped == DocumentsSpec => []DocumentsTypeOK
<1>1. IInv => DocumentsTypeOK
  BY DEF IInv
<1> QED
  BY <1>1, AlwaysIInv, PTL

\* A document row names an object that was put, which is there unless the store
\* lost it, and its hash is that of the object unless two renders overlapped or
\* one died between put and record (renderVoucher, documents-service.ts).
THEOREM RowPins == DocumentsSpec => []RowPinsItsObject
<1>1. IInv => RowPinsItsObject
  BY DEF IInv, RowHolds, RowPinsItsObject, Stored
<1> QED
  BY <1>1, AlwaysIInv, PTL

\* Every PDF that leaves the service is the voucher asked for, of a booking of the
\* caller's agency that was confirmed (voucherPdf, renderVoucher,
\* documents-service.ts; voucher.controller.ts).
THEOREM ServedRight == DocumentsSpec => []ServedAsAsked
<1>1. IInv => ServedAsAsked
  BY DEF IInv, CallHolds, ServedAsAsked, WasConfirmed, DocumentsTypeOK
<1> QED
  BY <1>1, AlwaysIInv, PTL
=============================================================================
