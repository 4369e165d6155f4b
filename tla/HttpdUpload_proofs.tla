-------------------------- MODULE HttpdUpload_proofs --------------------------
(***************************************************************************)
(* Proofs about HttpdUpload.  The invariant speaks of a machine m, like    *)
(* the operators that model the handlers, and is shown to pass through     *)
(* each of them; it is kept in parts, the later ones under the assumption  *)
(* on the clients that they need.                                          *)
(***************************************************************************)
EXTENDS HttpdUpload, TLAPS

Unit == Int \X Int
Phases == {"idle", "header", "payload", "full", "responding", "closing", "gone", "lost"}
Session ==
  [phase : Phases, q : Asked, pos : Nat, got : Nat, cached : BOOLEAN, uploading : BOOLEAN,
   buf : Seq(Unit), handled : BOOLEAN, sent : 0 .. 1, ret : {-1, 0}]
Entry == [of : Requests, type : Fields, image : Seq(Unit)]
MachineType ==
  [s : [Requests -> Session],
   ram : [Area -> Unit],
   http : [busy : BOOLEAN, id : Int, fresh : Int],
   up : [id : Int, of : Requests \cup {0}, size : Sizes \cup {0}, cached : BOOLEAN,
         type : Fields, auto : BOOLEAN],
   board : [flash : Seq(Entry), confirmed : Requests \cup {0}, meddled : BOOLEAN,
            end : [kind : {"run", "prompt", "boot", "reset", "crash"}, image : Seq(Unit)]]]

(* The counters of a session stay within its request.                        *)
Bounded(x) ==
  /\ x.pos <= Header + x.q.size
  /\ x.got <= x.q.size
  /\ Len(x.buf) <= x.got
  /\ x.phase = "header" => x.got = 0 /\ ~x.cached
  /\ x.handled => x.phase \in {"responding", "closing", "lost"}

Typed(m) == m \in MachineType /\ \A r \in Requests : Bounded(m.s[r])

Answered(m, r) == m.s[r].phase \in {"responding", "closing", "gone", "lost"}

(* What upload_data and the identifiers mean; what is flashed was answered,  *)
(* and what may be flashed was not flashed before.                           *)
Ids(m) ==
  /\ m.http.id \in -1 .. m.http.fresh - 1
  /\ m.up.id \in -1 .. m.http.fresh - 1
  /\ m.up.cached \/ UploadStands(m) => m.up.of \in Requests
  /\ m.up.of \in Requests => m.up.size = m.s[m.up.of].q.size /\ Answered(m, m.up.of)
  /\ \A i \in DOMAIN m.board.flash : Answered(m, m.board.flash[i].of)
  /\ \A i, j \in DOMAIN m.board.flash :
       m.board.flash[i].of = m.board.flash[j].of => i = j
  /\ UploadStands(m) => \A i \in DOMAIN m.board.flash : m.board.flash[i].of # m.up.of

(* Who waits for a body has set the mark, and a session keeps it when it      *)
(* vanishes.                                                                 *)
Tidy(x) ==
  /\ x.phase = "payload" => x.uploading
  /\ x.uploading => x.phase \in {"payload", "lost"}

Marked(m) == \A r \in Requests : Tidy(m.s[r])

(* As long as no small body took the mark away, one connection at a time     *)
(* fills the upload area, under the mark.                                    *)
Alone(m) ==
  /\ \A r \in Requests : Large(m.s[r]) => m.http.busy
  /\ \A a, b \in Requests : Large(m.s[a]) /\ Large(m.s[b]) => a = b

(* Then, with clients that send whole headers and large images, the area     *)
(* holds the bytes of the one that fills it, and no upload stands meanwhile; *)
(* else it holds the image of the upload that stands.                        *)
Gentle == Env \subseteq {"splitPost"}

Whole(m, r, n) == \A i \in 1 .. n : m.ram[i] = <<r, i>>

Holds(m) ==
  /\ m.up.of \in Requests /\ ~m.up.cached
  /\ m.up.type = m.s[m.up.of].q.field /\ m.s[m.up.of].q.valid
  /\ Whole(m, m.up.of, m.up.size)

Image(r, n) == [i \in 1 .. n |-> <<r, i>>]

Intact(m, w) ==
  /\ w.image = Image(w.of, m.s[w.of].q.size)
  /\ w.type = m.s[w.of].q.field /\ m.s[w.of].q.valid

Imaged(m) ==
  /\ \A r \in Requests : m.s[r].phase = "header" => m.s[r].pos = 0
  /\ \A r \in Requests : m.s[r].cached => m.s[r].q.uri # "upload"
  /\ \A r \in Requests : Large(m.s[r]) =>
       /\ ~UploadStands(m)
       /\ m.s[r].got = m.s[r].pos - Header /\ m.s[r].got < m.s[r].q.size
       /\ Whole(m, r, m.s[r].got)
  /\ \A r \in Requests : m.s[r].phase = "full" /\ m.s[r].q.uri = "upload" =>
       /\ ~UploadStands(m) /\ Whole(m, r, m.s[r].q.size)
       /\ \A x \in Requests : ~Large(m.s[x])
  /\ UploadStands(m) => Holds(m)
  /\ \A i \in DOMAIN m.board.flash : Intact(m, m.board.flash[i])

(* A confirmed upload is still there until another request meddles, and only *)
(* its own /result can ask for the failsafe to be left.                      *)
Waiting(m, r) == m.s[r].handled /\ m.s[r].q.uri = "result" /\ m.s[r].phase # "lost"

Untouched(m) == m.board.confirmed # 0 /\ ~m.board.meddled

Confirmed(m) ==
  /\ m.up.auto => m.board.confirmed # 0
  /\ \A r \in Requests : m.s[r].ret = 0 => m.board.confirmed # 0
  /\ Untouched(m) => Holds(m) /\ m.up.of = m.board.confirmed
  /\ Untouched(m) => \A r \in Requests : ~Large(m.s[r])
  /\ Untouched(m) => \A a, b \in Requests : Waiting(m, a) /\ Waiting(m, b) => a = b
  /\ Untouched(m) => \A r \in Requests : Waiting(m, r) => ~m.up.auto

(* The invariant of a machine; c: the mark was never taken away.             *)
Good(m, c) ==
  /\ Typed(m)
  /\ Ids(m)
  /\ Marked(m)
  /\ c => Alone(m)
  /\ c /\ Gentle => Imaged(m)
  /\ c /\ Gentle => Confirmed(m)

(* A step takes the mark from a large body that is coming in.                *)
Takes(m, n) ==
  \E small, large \in Requests :
    m.s[small].uploading /\ m.s[small].cached /\ ~n.s[small].uploading /\ Large(n.s[large])

----------------------------------------------------------------------------
(* Types *)

LEMMA AskedFacts ==
  ASSUME NEW q \in Asked
  PROVE  /\ q.uri \in {"result", "upload", "other"}
         /\ q.size \in Sizes \cup {0} /\ q.size \in Nat
         /\ q.uri # "result" => q.size \in Sizes
         /\ q.uri = "result" => q.size = 0
         /\ q.uri = "upload" => q.field \in Fields
         /\ q.valid \in BOOLEAN
         /\ q.uri = "upload" /\ q.field = "initramfs" => q.valid
         /\ q.uri = "upload" /\ Fits(q.size) => "smallImage" \in Env
<1> DEFINE Offered == {n \in Sizes : Fits(n) => "smallImage" \in Env}
<1>1. Offered \subseteq Sizes /\ \A n \in Offered : Fits(n) => "smallImage" \in Env
  OBVIOUS
<1> HIDE DEF Offered
<1>2. Sizes \subseteq Nat
  BY HttpdAssumption
<1>3. CASE q = NoPayload
  BY <1>3 DEF NoPayload
<1>4. CASE q \in [uri : {"upload"}, size : Offered, field : {"firmware"}, valid : BOOLEAN]
  BY <1>1, <1>2, <1>4 DEF Fields
<1>5. CASE q \in [uri : {"upload"}, size : Offered, field : {"initramfs"}, valid : {TRUE}]
  BY <1>1, <1>2, <1>5 DEF Fields
<1>6. CASE q \in [uri : {"other"}, size : Sizes, field : {""}, valid : {TRUE}]
  BY <1>2, <1>6
<1> QED
  BY <1>3, <1>4, <1>5, <1>6 DEF Asked, Offered

LEMMA AreaFacts ==
  \E top \in Nat : Area = 1 .. top /\ \A n \in Sizes \cup {0} : n <= top
<1> DEFINE top == CHOOSE n \in Sizes : \A k \in Sizes : k <= n
<1>1. top \in Sizes /\ \A k \in Sizes : k <= top
  BY HttpdAssumption
<1> HIDE DEF top
<1>2. Area = 1 .. top
  BY DEF Area, top
<1> QED
  BY <1>1, <1>2, HttpdAssumption

LEMMA UnitsType ==
  ASSUME NEW r \in Requests, NEW from \in Nat, NEW to \in Nat, from <= to
  PROVE  /\ Units(r, from, to) \in Seq(Unit)
         /\ Len(Units(r, from, to)) = to - from
         /\ DOMAIN Units(r, from, to) = 1 .. to - from
<1>1. \A i \in 1 .. to - from : <<r, from - Header + i>> \in Unit
  BY HttpdAssumption DEF Unit, Requests
<1>2. Units(r, from, to) \in [1 .. to - from -> Unit]
  BY <1>1 DEF Units
<1>3. to - from \in Nat
  OBVIOUS
<1> QED
  BY <1>2, <1>3

LEMMA StoredType ==
  ASSUME NEW area \in [Area -> Unit], NEW off \in Nat, NEW units \in Seq(Unit)
  PROVE  Stored(area, off, units) \in [Area -> Unit]
<1>1. \A i \in Area : i - off \in DOMAIN units => units[i - off] \in Unit
  OBVIOUS
<1> QED
  BY <1>1 DEF Stored

LEMMA IdleType == Idle \in Session /\ \A q \in Asked : [Idle EXCEPT !.q = q] \in Session
<1>1. NoPayload \in Asked
  BY DEF Asked, NoPayload
<1>2. Idle \in Session
  BY <1>1 DEF Idle, Session, Phases
<1> QED
  BY <1>2 DEF Session

LEMMA FreedType ==
  ASSUME NEW x \in Session
  PROVE  /\ Freed(x) \in Session /\ Bounded(Freed(x))
         /\ Freed(x).q = x.q /\ Freed(x).phase = "gone" /\ ~Freed(x).uploading
         /\ ~Freed(x).handled /\ Freed(x).ret = -1 /\ Freed(x).pos = 0 /\ ~Freed(x).cached
<1>1. x.q.size \in Nat
  BY AskedFacts DEF Session
<1>2. Freed(x) \in Session
  BY IdleType DEF Freed, Session, Phases
<1>3. /\ Freed(x).q = x.q /\ Freed(x).phase = "gone" /\ ~Freed(x).uploading
      /\ ~Freed(x).handled /\ Freed(x).ret = -1 /\ ~Freed(x).cached
      /\ Freed(x).pos = 0 /\ Freed(x).got = 0 /\ Freed(x).buf = <<>>
  BY DEF Freed, Idle
<1> QED
  BY <1>1, <1>2, <1>3, HttpdAssumption DEF Bounded

----------------------------------------------------------------------------
(* What the operators leave in the fields of a machine *)

LEMMA MachineFields ==
  ASSUME NEW m \in MachineType, NEW r \in Requests
  PROVE  /\ m.s[r] \in Session /\ m.s[r].q \in Asked /\ m.s[r].q.size \in Nat
         /\ m.s[r].pos \in Nat /\ m.s[r].got \in Nat /\ m.s[r].buf \in Seq(Unit)
         /\ m.ram \in [Area -> Unit]
<1>1. m.s[r] \in Session /\ m.ram \in [Area -> Unit]
  BY DEF MachineType
<1>2. m.s[r].q \in Asked /\ m.s[r].pos \in Nat /\ m.s[r].got \in Nat /\ m.s[r].buf \in Seq(Unit)
  BY <1>1 DEF Session
<1> QED
  BY <1>1, <1>2, AskedFacts

LEMMA FullyReceivedFields ==
  ASSUME NEW m \in MachineType, NEW r \in Requests
  PROVE  LET n == FullyReceived(m, r)
         IN  /\ n \in MachineType
             /\ n.s = [m.s EXCEPT ![r] = [m.s[r] EXCEPT !.phase = "full", !.uploading = FALSE]]
             /\ n.http = [m.http EXCEPT !.busy = FALSE]
             /\ n.ram = m.ram /\ n.up = m.up /\ n.board = m.board
<1>1. [m.s[r] EXCEPT !.phase = "full", !.uploading = FALSE] \in Session
  BY MachineFields DEF Session, Phases
<1> QED
  BY <1>1 DEF FullyReceived, MachineType

LEMMA DroppedFields ==
  ASSUME NEW m \in MachineType, NEW r \in Requests
  PROVE  LET n == Dropped(m, r)
         IN  /\ n \in MachineType
             /\ n.s = [m.s EXCEPT ![r] = Freed(m.s[r])]
             /\ n.http = [m.http EXCEPT !.busy = @ /\ ~m.s[r].uploading]
             /\ n.ram = m.ram /\ n.up = m.up /\ n.board = m.board
<1>1. Freed(m.s[r]) \in Session /\ m.s[r].uploading \in BOOLEAN
  BY MachineFields, FreedType DEF Session
<1> QED
  BY <1>1 DEF Dropped, MachineType

LEMMA PayloadBegunFields ==
  ASSUME NEW m \in MachineType, NEW r \in Requests
  PROVE  LET n     == PayloadBegun(m, r)
             whole == m.s[r].got = m.s[r].q.size
         IN  /\ n \in MachineType
             /\ whole  => n.s = [m.s EXCEPT ![r].phase = "full"] /\ n.http = m.http
             /\ ~whole => /\ n.s = [m.s EXCEPT ![r] = [m.s[r] EXCEPT !.phase = "payload", !.uploading = TRUE]]
                          /\ n.http = [m.http EXCEPT !.busy = TRUE]
             /\ n.ram = m.ram /\ n.up = m.up /\ n.board = m.board
<1>1. [m.s[r] EXCEPT !.phase = "payload", !.uploading = TRUE] \in Session
  BY MachineFields DEF Session, Phases
<1>2. [m.s[r] EXCEPT !.phase = "full"] \in Session
  BY MachineFields DEF Session, Phases
<1> QED
  BY <1>1, <1>2 DEF PayloadBegun, MachineType

SameButMeddled(m, n) ==
  /\ n.board.flash = m.board.flash /\ n.board.confirmed = m.board.confirmed
  /\ n.board.end = m.board.end
  /\ n.board.meddled <=> m.board.meddled \/ m.board.confirmed # 0

LEMMA MeddleFields ==
  ASSUME NEW m \in MachineType, NEW r \in Requests
  PROVE  LET n == Meddle(m, r)
         IN  /\ n \in MachineType
             /\ n.s = m.s /\ n.ram = m.ram /\ n.http = m.http /\ n.up = m.up
             /\ SameButMeddled(m, n)
BY DEF Meddle, MachineType, SameButMeddled

LEMMA AreaBegunFields ==
  ASSUME NEW m \in MachineType, NEW r \in Requests, NEW k \in Nat,
         Header <= k, m.s[r].pos + k <= Header + m.s[r].q.size
  PROVE  LET n     == AreaBegun(m, r, k)
             whole == k - Header = m.s[r].q.size
         IN  /\ n \in MachineType
             /\ whole  => /\ n.s = [m.s EXCEPT ![r] = [m.s[r] EXCEPT !.got = k - Header, !.phase = "full"]]
                          /\ n.http.busy = m.http.busy
             /\ ~whole => /\ n.s = [m.s EXCEPT ![r] = [m.s[r] EXCEPT !.got = k - Header,
                                      !.phase = "payload", !.uploading = TRUE]]
                          /\ n.http.busy
             /\ n.http.id = m.http.fresh /\ n.http.fresh = m.http.fresh + 1
             /\ n.ram = Stored(m.ram, 0, Units(r, m.s[r].pos + Header, m.s[r].pos + k))
             /\ n.up = m.up
             /\ SameButMeddled(m, n)
<1> DEFINE units == Units(r, m.s[r].pos + Header, m.s[r].pos + k)
           begun == [m EXCEPT !.http = NewUploadId(@), !.s[r].got = k - Header,
                              !.ram = Stored(@, 0, units)]
<1>1. AreaBegun(m, r, k) = PayloadBegun(Meddle(begun, r), r)
  BY MachineFields, HttpdAssumption DEF AreaBegun
<1>2. units \in Seq(Unit)
  <2>1. m.s[r].pos + Header \in Nat /\ m.s[r].pos + k \in Nat
    BY MachineFields, HttpdAssumption
  <2>2. m.s[r].pos + Header <= m.s[r].pos + k
    <3>1. m.s[r].pos \in Nat /\ Header \in Nat
      BY MachineFields, HttpdAssumption
    <3> QED
      BY <3>1
  <2> QED
    BY <2>1, <2>2, UnitsType
<1>3. Stored(m.ram, 0, units) \in [Area -> Unit]
  BY <1>2, StoredType, MachineFields
<1>4. [m.s[r] EXCEPT !.got = k - Header] \in Session
  <2>1. k - Header \in Nat
    BY HttpdAssumption
  <2> QED
    BY <2>1, MachineFields DEF Session
<1> HIDE DEF units
<1>5. /\ begun \in MachineType
      /\ begun.s = [m.s EXCEPT ![r] = [m.s[r] EXCEPT !.got = k - Header]]
      /\ begun.http.busy = m.http.busy
      /\ begun.http.id = m.http.fresh /\ begun.http.fresh = m.http.fresh + 1
      /\ begun.ram = Stored(m.ram, 0, units)
      /\ begun.up = m.up /\ begun.board = m.board
  <2>1. /\ NewUploadId(m.http) \in [busy : BOOLEAN, id : Int, fresh : Int]
        /\ NewUploadId(m.http).busy = m.http.busy /\ NewUploadId(m.http).id = m.http.fresh
        /\ NewUploadId(m.http).fresh = m.http.fresh + 1
    <3>1. m.http \in [busy : BOOLEAN, id : Int, fresh : Int]
      BY DEF MachineType
    <3>2. m.http.fresh + 1 \in Int
      BY <3>1
    <3> QED
      BY <3>1, <3>2 DEF NewUploadId
  <2>2. /\ begun.s = [m.s EXCEPT ![r] = [m.s[r] EXCEPT !.got = k - Header]]
        /\ begun.http = NewUploadId(m.http)
        /\ begun.ram = Stored(m.ram, 0, units)
        /\ begun.up = m.up /\ begun.board = m.board
    BY DEF MachineType
  <2>3. [m EXCEPT !.http = NewUploadId(@)] \in MachineType
    BY <2>1 DEF MachineType
  <2>4. begun \in MachineType
    BY <2>3, <1>3, <1>4 DEF MachineType
  <2> QED
    BY <2>1, <2>2, <2>4
<1> HIDE DEF begun
<1> DEFINE after == Meddle(begun, r)
<1>6. /\ after \in MachineType
      /\ after.s = begun.s /\ after.ram = begun.ram /\ after.http = begun.http /\ after.up = begun.up
      /\ SameButMeddled(m, after)
  BY <1>5, MeddleFields DEF SameButMeddled
<1> HIDE DEF after
<1>7. after.s[r].got = k - Header /\ after.s[r].q = m.s[r].q
  BY <1>4, <1>5, <1>6 DEF MachineType, Session
<1> DEFINE n == PayloadBegun(after, r)
<1>8. /\ n \in MachineType /\ n.ram = after.ram /\ n.up = after.up /\ n.board = after.board
      /\ k - Header = m.s[r].q.size => n.s = [after.s EXCEPT ![r].phase = "full"] /\ n.http = after.http
      /\ k - Header # m.s[r].q.size =>
           /\ n.s = [after.s EXCEPT ![r] = [after.s[r] EXCEPT !.phase = "payload", !.uploading = TRUE]]
           /\ n.http = [after.http EXCEPT !.busy = TRUE]
  <2>1. k - Header = m.s[r].q.size <=> after.s[r].got = after.s[r].q.size
    BY <1>7
  <2>2. LET whole == after.s[r].got = after.s[r].q.size
        IN  /\ n \in MachineType
            /\ whole  => n.s = [after.s EXCEPT ![r].phase = "full"] /\ n.http = after.http
            /\ ~whole => /\ n.s = [after.s EXCEPT ![r] = [after.s[r] EXCEPT !.phase = "payload", !.uploading = TRUE]]
                         /\ n.http = [after.http EXCEPT !.busy = TRUE]
            /\ n.ram = after.ram /\ n.up = after.up /\ n.board = after.board
    BY <1>6, PayloadBegunFields
  <2> QED
    BY <2>1, <2>2
<1>9. AreaBegun(m, r, k) = n
  BY <1>1 DEF n, after
<1> HIDE DEF n
<1>10. /\ k - Header = m.s[r].q.size =>
            n.s = [m.s EXCEPT ![r] = [m.s[r] EXCEPT !.got = k - Header, !.phase = "full"]]
       /\ k - Header # m.s[r].q.size =>
            n.s = [m.s EXCEPT ![r] = [m.s[r] EXCEPT !.got = k - Header,
                                      !.phase = "payload", !.uploading = TRUE]]
  <2> DEFINE x == [m.s[r] EXCEPT !.got = k - Header]
  <2>0. after.s = [m.s EXCEPT ![r] = x]
    BY <1>5, <1>6
  <2> HIDE DEF x
  <2>1. after.s = [m.s EXCEPT ![r] = x] /\ after.s[r] = x
    BY <2>0 DEF MachineType
  <2>2. \A y : [after.s EXCEPT ![r] = y] = [m.s EXCEPT ![r] = y]
    BY <2>1, <1>6 DEF MachineType
  <2>3. /\ k - Header = m.s[r].q.size => n.s = [m.s EXCEPT ![r] = [x EXCEPT !.phase = "full"]]
        /\ k - Header # m.s[r].q.size =>
             n.s = [m.s EXCEPT ![r] = [x EXCEPT !.phase = "payload", !.uploading = TRUE]]
    BY <2>1, <2>2, <1>8
  <2> QED
    BY <2>3 DEF x
<1>11. n.http.id = m.http.fresh /\ n.http.fresh = m.http.fresh + 1
       /\ (k - Header = m.s[r].q.size => n.http.busy = m.http.busy)
       /\ (k - Header # m.s[r].q.size => n.http.busy)
  BY <1>5, <1>6, <1>8 DEF MachineType
<1> QED
  BY <1>5, <1>6, <1>8, <1>9, <1>10, <1>11 DEF units, SameButMeddled

----------------------------------------------------------------------------
(* Every operator keeps a good machine good *)

(* What no request that was answered can notice leaves Ids alone.            *)
LEMMA IdsFrame ==
  ASSUME NEW m \in MachineType, NEW n \in MachineType, Ids(m),
         \A x \in Requests : Answered(m, x) => Answered(n, x) /\ n.s[x].q = m.s[x].q,
         n.up.id = m.up.id, n.up.of = m.up.of, n.up.size = m.up.size, n.up.cached = m.up.cached,
         n.board.flash = m.board.flash,
         \/ n.http.id = m.http.id /\ n.http.fresh = m.http.fresh
         \/ n.http.id = m.http.fresh /\ n.http.fresh = m.http.fresh + 1
  PROVE  Ids(n) /\ (UploadStands(n) => UploadStands(m))
<1>1. /\ {m.http.id, m.http.fresh, m.up.id} \subseteq Int
      /\ m.board.flash \in Seq(Entry)
  BY DEF MachineType
<1>2. \A i \in DOMAIN m.board.flash : m.board.flash[i].of \in Requests
  <2>1. \A i \in DOMAIN m.board.flash : m.board.flash[i] \in Entry
    BY <1>1
  <2> QED
    BY <2>1 DEF Entry
<1>3. UploadStands(n) => UploadStands(m)
  BY <1>1 DEF Ids, UploadStands
<1> QED
  BY <1>1, <1>2, <1>3 DEF Ids

(* One session changes, and stays within its request.                        *)
LEMMA OneSession ==
  ASSUME NEW m, Typed(m), NEW n \in MachineType, NEW r \in Requests,
         NEW y \in Session, Bounded(y), n.s = [m.s EXCEPT ![r] = y]
  PROVE  Typed(n) /\ n.s[r] = y /\ \A x \in Requests \ {r} : n.s[x] = m.s[x]
<1>1. n.s[r] = y /\ \A x \in Requests \ {r} : n.s[x] = m.s[x]
  BY DEF Typed, MachineType
<1> QED
  BY <1>1 DEF Typed

(* A step of one request's own.                                              *)
OwnStep(m, n, r) ==
  /\ n.s[r].q = m.s[r].q /\ \A x \in Requests \ {r} : n.s[x] = m.s[x]
  /\ n.board.end.kind \in {m.board.end.kind, "crash"}

LEMMA SetSession ==
  ASSUME NEW m \in MachineType, NEW r \in Requests, NEW y \in Session
  PROVE  LET n == [m EXCEPT !.s[r] = y]
         IN  /\ n \in MachineType /\ n.s = [m.s EXCEPT ![r] = y] /\ n.s[r] = y
             /\ n.ram = m.ram /\ n.http = m.http /\ n.up = m.up /\ n.board = m.board
BY DEF MachineType

LEMMA SetTwice ==
  ASSUME NEW m \in MachineType, NEW r \in Requests, NEW y, NEW z
  PROVE  [[m EXCEPT !.s[r] = y] EXCEPT !.s[r] = z] = [m EXCEPT !.s[r] = z]
<1>1. m.s \in [Requests -> Session]
  BY DEF MachineType
<1>2. [[m.s EXCEPT ![r] = y] EXCEPT ![r] = z] = [m.s EXCEPT ![r] = z]
  BY <1>1
<1> QED
  BY <1>2 DEF MachineType

(* The first pos units of the request are there.                             *)
LEMMA AtFields ==
  ASSUME NEW m, Typed(m), NEW r \in Requests, NEW pos \in Nat,
         pos <= Header + m.s[r].q.size
  PROVE  LET n == [m EXCEPT !.s[r].pos = pos]
             y == [m.s[r] EXCEPT !.pos = pos]
         IN  /\ y \in Session /\ Bounded(y)
             /\ \A f \in {"q", "phase", "got", "cached", "uploading", "buf", "handled", "sent", "ret"} :
                  y[f] = m.s[r][f]
             /\ y.pos = pos
             /\ n = [m EXCEPT !.s[r] = y] /\ n \in MachineType /\ Typed(n)
             /\ n.s = [m.s EXCEPT ![r] = y]
             /\ n.ram = m.ram /\ n.http = m.http /\ n.up = m.up /\ n.board = m.board
<1> DEFINE n == [m EXCEPT !.s[r].pos = pos]
           y == [m.s[r] EXCEPT !.pos = pos]
<1>1. m \in MachineType /\ m.s[r] \in Session /\ Bounded(m.s[r])
  BY MachineFields DEF Typed
<1>2. y \in Session
  BY <1>1 DEF Session
<1>3. /\ \A f \in {"q", "phase", "got", "cached", "uploading", "buf", "handled", "sent", "ret"} :
            y[f] = m.s[r][f]
      /\ y.pos = pos
  BY <1>1 DEF Session
<1>4. n = [m EXCEPT !.s[r] = y]
  OBVIOUS
<1> HIDE DEF y, n
<1>5. Bounded(y)
  BY <1>1, <1>3 DEF Bounded
<1>6. /\ n \in MachineType /\ n.s = [m.s EXCEPT ![r] = y]
      /\ n.ram = m.ram /\ n.http = m.http /\ n.up = m.up /\ n.board = m.board
  BY <1>1, <1>2, <1>4, SetSession
<1>7. Typed(n)
  BY <1>2, <1>5, <1>6, OneSession
<1> QED
  BY <1>2, <1>3, <1>4, <1>5, <1>6, <1>7 DEF n, y

(* Sessions that neither write the area nor wait to stand leave it alone.    *)
Plain(y) ==
  /\ y.phase = "header" => y.pos = 0
  /\ y.cached => y.q.uri # "upload"
  /\ ~Large(y)
  /\ ~(y.phase = "full" /\ y.q.uri = "upload")

SameImage(m, n) ==
  /\ n.ram = m.ram
  /\ n.up.of = m.up.of /\ n.up.size = m.up.size /\ n.up.cached = m.up.cached /\ n.up.type = m.up.type
  /\ UploadStands(n) => UploadStands(m)
  /\ \A x \in Requests : Answered(m, x) => n.s[x].q = m.s[x].q

LEMMA HoldsFrame ==
  ASSUME NEW m \in MachineType, NEW n \in MachineType, Ids(m), SameImage(m, n)
  PROVE  Holds(m) => Holds(n)
BY DEF Holds, Ids, SameImage, Whole

LEMMA IntactFrame ==
  ASSUME NEW m \in MachineType, NEW n \in MachineType, Ids(m),
         n.board.flash = m.board.flash,
         \A x \in Requests : Answered(m, x) => n.s[x].q = m.s[x].q,
         \A i \in DOMAIN m.board.flash : Intact(m, m.board.flash[i])
  PROVE  \A i \in DOMAIN n.board.flash : Intact(n, n.board.flash[i])
<1> TAKE i \in DOMAIN n.board.flash
<1>1. i \in DOMAIN m.board.flash /\ n.board.flash[i] = m.board.flash[i]
  OBVIOUS
<1>2. m.board.flash[i] \in Entry
  BY <1>1 DEF MachineType
<1>3. n.s[m.board.flash[i].of].q = m.s[m.board.flash[i].of].q
  BY <1>1, <1>2 DEF Entry, Ids
<1>4. Intact(m, m.board.flash[i])
  BY <1>1
<1> QED
  BY <1>1, <1>3, <1>4 DEF Intact

LEMMA ImagedFrame ==
  ASSUME NEW m \in MachineType, NEW n \in MachineType, Ids(m), SameImage(m, n), Imaged(m),
         n.board.flash = m.board.flash,
         \A x \in Requests : n.s[x] = m.s[x] \/ Plain(n.s[x])
  PROVE  Imaged(n)
<1>1. \A x \in Requests : n.s[x].phase = "header" => n.s[x].pos = 0
  BY DEF Imaged, Plain
<1>2. \A x \in Requests : Large(n.s[x]) =>
        /\ ~UploadStands(n)
        /\ n.s[x].got = n.s[x].pos - Header /\ n.s[x].got < n.s[x].q.size
        /\ Whole(n, x, n.s[x].got)
  BY DEF Imaged, Plain, SameImage, Whole
<1>3. \A x \in Requests : n.s[x].phase = "full" /\ n.s[x].q.uri = "upload" =>
        /\ ~UploadStands(n) /\ Whole(n, x, n.s[x].q.size)
        /\ \A z \in Requests : ~Large(n.s[z])
  BY DEF Imaged, Plain, SameImage, Whole
<1>4. UploadStands(n) => Holds(n)
  BY HoldsFrame DEF Imaged, SameImage
<1>5. \A i \in DOMAIN n.board.flash : Intact(n, n.board.flash[i])
  BY IntactFrame DEF Imaged, SameImage
<1>6. \A x \in Requests : n.s[x].cached => n.s[x].q.uri # "upload"
  BY DEF Imaged, Plain
<1> QED
  BY <1>1, <1>2, <1>3, <1>4, <1>5, <1>6 DEF Imaged

LEMMA ConfirmedFrame ==
  ASSUME NEW m \in MachineType, NEW n \in MachineType, Ids(m), Confirmed(m),
         Untouched(n) => Untouched(m) /\ SameImage(m, n),
         n.board.confirmed = m.board.confirmed, n.up.auto => m.up.auto,
         \A x \in Requests : n.s[x].ret = 0 => m.s[x].ret = 0,
         Untouched(n) => \A x \in Requests : /\ Large(n.s[x]) => Large(m.s[x])
                                             /\ Waiting(n, x) => Waiting(m, x)
  PROVE  Confirmed(n)
<1>1. Untouched(n) => Holds(n) /\ n.up.of = n.board.confirmed
  BY HoldsFrame DEF Confirmed, SameImage
<1> QED
  BY <1>1 DEF Confirmed

(* Nothing is lost when one session changes without touching the area.       *)
LEMMA PlainGood ==
  ASSUME NEW c \in BOOLEAN, NEW m, Good(m, c), NEW n \in MachineType, NEW r \in Requests,
         NEW y \in Session, Bounded(y), n.s = [m.s EXCEPT ![r] = y],
         n.ram = m.ram, n.up = m.up,
         n.board.flash = m.board.flash, n.board.confirmed = m.board.confirmed,
         m.board.meddled => n.board.meddled,
         n.http.id = m.http.id, n.http.fresh = m.http.fresh,
         Answered(m, r) => y.phase \in {"responding", "closing", "gone", "lost"} /\ y.q = m.s[r].q,
         Tidy(y),
         c => ~Large(y),
         c => (m.http.busy /\ (\E x \in Requests \ {r} : Large(m.s[x])) => n.http.busy),
         c /\ Gentle => Plain(y) /\ (y.ret = 0 => m.s[r].ret = 0),
         c /\ Gentle => (y.handled /\ y.q.uri = "result" /\ y.phase # "lost" =>
                           Waiting(m, r) \/ ~Untouched(n))
  PROVE  Good(n, c)
<1>1. Typed(m) /\ m \in MachineType /\ Ids(m)
  BY DEF Good, Typed
<1>2. n.s[r] = y /\ \A x \in Requests \ {r} : n.s[x] = m.s[x]
  BY <1>1 DEF MachineType
<1>3. Typed(n)
  BY <1>1, OneSession
<1>4. \A x \in Requests : Answered(m, x) => Answered(n, x) /\ n.s[x].q = m.s[x].q
  BY <1>2 DEF Answered
<1>5. Ids(n) /\ (UploadStands(n) => UploadStands(m))
  BY <1>1, <1>4, IdsFrame
<1>6. Marked(n) /\ (c => Alone(n))
  <2>1. Marked(n)
    BY <1>2 DEF Good, Marked
  <2>2. c => Alone(n)
    BY <1>2 DEF Good, Alone
  <2> QED
    BY <2>1, <2>2
<1>7. SameImage(m, n)
  BY <1>4, <1>5 DEF SameImage
<1>8. c /\ Gentle => Imaged(n)
  <2>1. c /\ Gentle => \A x \in Requests : n.s[x] = m.s[x] \/ Plain(n.s[x])
    BY <1>2
  <2> QED
    BY <1>1, <1>7, <2>1, ImagedFrame DEF Good
<1>9. c /\ Gentle => Confirmed(n)
  <2> SUFFICES ASSUME c, Gentle PROVE Confirmed(n)
    OBVIOUS
  <2>1. \A x \in Requests : /\ n.s[x].ret = 0 => m.s[x].ret = 0
                            /\ Large(n.s[x]) => Large(m.s[x])
    BY <1>2 DEF Plain
  <2>2. Untouched(n) => Untouched(m)
    BY <1>1 DEF Untouched, MachineType
  <2>3. Untouched(n) => \A x \in Requests : Waiting(n, x) => Waiting(m, x)
    BY <1>2 DEF Waiting
  <2> QED
    BY <1>1, <1>7, <2>1, <2>2, <2>3, ConfirmedFrame DEF Good
<1> QED
  BY <1>3, <1>5, <1>6, <1>8, <1>9 DEF Good

(* A connection ends before its request was handled.                         *)
LEMMA DroppedGood ==
  ASSUME NEW c \in BOOLEAN, NEW m, Good(m, c), NEW r \in Requests, m.s[r].phase # "lost",
         c => ~Takes(m, Dropped(m, r))
  PROVE  Good(Dropped(m, r), c) /\ OwnStep(m, Dropped(m, r), r)
<1> DEFINE n == Dropped(m, r)
           y == Freed(m.s[r])
<1>1. Typed(m) /\ m \in MachineType
  BY DEF Good, Typed
<1>2. /\ n \in MachineType /\ n.s = [m.s EXCEPT ![r] = y]
      /\ n.http = [m.http EXCEPT !.busy = @ /\ ~m.s[r].uploading]
      /\ n.ram = m.ram /\ n.up = m.up /\ n.board = m.board
  BY <1>1, DroppedFields
<1>3. /\ y \in Session /\ Bounded(y) /\ y.q = m.s[r].q /\ y.phase = "gone" /\ ~y.uploading
      /\ ~y.handled /\ y.ret = -1 /\ ~y.cached
  BY <1>1, MachineFields, FreedType
<1>a. c => ~Takes(m, n)
  OBVIOUS
<1> HIDE DEF n, y
<1>4. /\ n.http.id = m.http.id /\ n.http.fresh = m.http.fresh
      /\ m.http.busy /\ ~m.s[r].uploading => n.http.busy
      /\ n.s[r] = y /\ \A x \in Requests \ {r} : n.s[x] = m.s[x]
  BY <1>1, <1>2 DEF MachineType
<1>5. Plain(y) /\ Tidy(y) /\ ~Large(y)
  BY <1>3 DEF Plain, Tidy, Large
<1>b. c => (m.http.busy /\ (\E x \in Requests \ {r} : Large(m.s[x])) => n.http.busy)
  <2> SUFFICES ASSUME c, m.http.busy, NEW x \in Requests \ {r}, Large(m.s[x])
               PROVE  ~m.s[r].uploading
    BY <1>4
  <2>1. SUFFICES ASSUME m.s[r].uploading PROVE FALSE
    OBVIOUS
  <2>2. m.s[r].phase = "payload"
    BY <2>1 DEF Good, Marked, Tidy
  <2>3. CASE m.s[r].cached
    BY <1>a, <1>3, <1>4, <2>1, <2>3 DEF Takes
  <2>4. CASE ~m.s[r].cached
    BY <2>2, <2>4 DEF Good, Alone, Large
  <2> QED
    BY <2>3, <2>4
<1>6. /\ Answered(m, r) => y.phase \in {"responding", "closing", "gone", "lost"} /\ y.q = m.s[r].q
      /\ Plain(y) /\ (y.ret = 0 => m.s[r].ret = 0)
      /\ ~(y.handled /\ y.q.uri = "result")
  BY <1>3, <1>5
<1>c. /\ c => ~Large(y)
      /\ c /\ Gentle => Plain(y) /\ (y.ret = 0 => m.s[r].ret = 0)
      /\ c /\ Gentle => (y.handled /\ y.q.uri = "result" /\ y.phase # "lost" =>
                         Waiting(m, r) \/ ~Untouched(n))
      /\ n.board.flash = m.board.flash /\ n.board.confirmed = m.board.confirmed
      /\ m.board.meddled => n.board.meddled
  BY <1>2, <1>5, <1>6
<1>7. Good(n, c)
  <2>1. /\ y \in Session /\ Bounded(y) /\ n \in MachineType /\ n.s = [m.s EXCEPT ![r] = y]
        /\ n.ram = m.ram /\ n.up = m.up
        /\ n.http.id = m.http.id /\ n.http.fresh = m.http.fresh /\ Tidy(y)
    BY <1>2, <1>3, <1>4, <1>5
  <2>2. Answered(m, r) => y.phase \in {"responding", "closing", "gone", "lost"} /\ y.q = m.s[r].q
    BY <1>6
  <2> QED
    BY <2>1, <2>2, <1>b, <1>c, PlainGood
<1>8. OwnStep(m, n, r)
  BY <1>1, <1>2, <1>3 DEF MachineType, OwnStep
<1> QED
  BY <1>7, <1>8 DEF n

(* A request starts: the header is not complete yet.                         *)
LEMMA HeaderGood ==
  ASSUME NEW c \in BOOLEAN, NEW m, Good(m, c), NEW r \in Requests, m.s[r].phase = "header", ~(c /\ Gentle),
         NEW pos \in Nat, pos <= Header
  PROVE  LET n == [m EXCEPT !.s[r].pos = pos]
         IN  /\ Good(n, c)
             /\ OwnStep(m, n, r)
<1> DEFINE n == [m EXCEPT !.s[r].pos = pos]
           y == [m.s[r] EXCEPT !.pos = pos]
<1>1. Typed(m) /\ m \in MachineType
  BY DEF Good, Typed
<1>2. pos <= Header + m.s[r].q.size
  BY <1>1, MachineFields, HttpdAssumption
<1>3. /\ y \in Session /\ Bounded(y) /\ y.phase = "header" /\ y.uploading = m.s[r].uploading
      /\ y.q = m.s[r].q
      /\ n \in MachineType /\ n.s = [m.s EXCEPT ![r] = y]
      /\ n.ram = m.ram /\ n.http = m.http /\ n.up = m.up /\ n.board = m.board
  BY <1>1, <1>2, AtFields
<1> HIDE DEF n, y
<1>4. Tidy(y) /\ ~Large(y)
  BY <1>3 DEF Good, Marked, Tidy, Large
<1>5. Good(n, c)
  BY <1>3, <1>4, PlainGood DEF Answered
<1>6. OwnStep(m, n, r)
  BY <1>1, <1>3 DEF MachineType, OwnStep
<1> QED
  BY <1>5, <1>6 DEF n

(* A request without a body is complete with its header.                     *)
Bodiless(m, r, pos) == [[m EXCEPT !.s[r].pos = pos] EXCEPT !.s[r].phase = "full"]

LEMMA BodilessGood ==
  ASSUME NEW c \in BOOLEAN, NEW m, Good(m, c), NEW r \in Requests, m.s[r].phase = "header",
         NEW pos \in Nat, pos <= Header + m.s[r].q.size, m.s[r].q.uri = "result"
  PROVE  LET n == Bodiless(m, r, pos)
         IN  /\ Good(n, c)
             /\ OwnStep(m, n, r)
<1> DEFINE a  == [m EXCEPT !.s[r].pos = pos]
           y1 == [m.s[r] EXCEPT !.pos = pos]
           y  == [y1 EXCEPT !.phase = "full"]
           n  == [a EXCEPT !.s[r].phase = "full"]
<1>1. Typed(m) /\ m \in MachineType
  BY DEF Good, Typed
<1>2. /\ y1 \in Session /\ Bounded(y1) /\ y1.uploading = m.s[r].uploading
      /\ y1.q = m.s[r].q /\ y1.ret = m.s[r].ret /\ y1.handled = m.s[r].handled
      /\ y1.cached = m.s[r].cached
      /\ a \in MachineType /\ a.s = [m.s EXCEPT ![r] = y1]
      /\ a.ram = m.ram /\ a.http = m.http /\ a.up = m.up /\ a.board = m.board
  BY <1>1, AtFields
<1> HIDE DEF y1, a
<1>3. a.s[r] = y1 /\ \A x \in Requests \ {r} : a.s[x] = m.s[x]
  BY <1>1, <1>2 DEF MachineType
<1>4. ~y1.handled /\ ~y1.cached
  BY <1>1, <1>2 DEF Typed, Bounded
<1>5. /\ y \in Session /\ Bounded(y) /\ y.phase = "full" /\ y.q = m.s[r].q /\ ~y.cached
      /\ y.uploading = m.s[r].uploading /\ ~y.handled /\ y.ret = m.s[r].ret
  BY <1>2, <1>4 DEF Session, Phases, Bounded
<1> HIDE DEF y
<1>6. n = [a EXCEPT !.s[r] = y]
  BY <1>3 DEF y
<1> HIDE DEF n
<1>7. /\ n \in MachineType /\ n.s = [a.s EXCEPT ![r] = y] /\ n.s[r] = y
      /\ n.ram = m.ram /\ n.http = m.http /\ n.up = m.up /\ n.board = m.board
  BY <1>2, <1>5, <1>6, SetSession
<1>8. n.s = [m.s EXCEPT ![r] = y]
  BY <1>1, <1>2, <1>7 DEF MachineType
<1>9. OwnStep(m, n, r)
  BY <1>1, <1>5, <1>7, <1>8 DEF MachineType, OwnStep
<1>10. Tidy(y) /\ ~Large(y)
  BY <1>5 DEF Good, Marked, Tidy, Large
<1>11. Plain(y) /\ (y.ret = 0 => m.s[r].ret = 0)
  BY <1>5, <1>10 DEF Plain
<1>12. Good(n, c)
  BY <1>1, <1>5, <1>7, <1>8, <1>10, <1>11, PlainGood DEF Answered
<1>13. n = Bodiless(m, r, pos)
  BY DEF n, a, Bodiless
<1> QED
  BY <1>9, <1>12, <1>13

(* A body that fits the session's buffer.                                    *)
CachedAt(m, r, pos) ==
  PayloadBegun([[m EXCEPT !.s[r].pos = pos] EXCEPT
                  !.s[r].cached = TRUE, !.s[r].got = pos - Header,
                  !.s[r].buf = Units(r, Header, pos)], r)

LEMMA CachedGood ==
  ASSUME NEW c \in BOOLEAN, NEW m, Good(m, c), NEW r \in Requests, m.s[r].phase = "header",
         NEW pos \in Nat, Header <= pos, pos <= Header + m.s[r].q.size,
         m.s[r].q.uri # "result", Fits(m.s[r].q.size)
  PROVE  LET n == CachedAt(m, r, pos)
         IN  /\ Good(n, c)
             /\ OwnStep(m, n, r)
<1> DEFINE a  == [m EXCEPT !.s[r].pos = pos]
           y1 == [m.s[r] EXCEPT !.pos = pos]
           y2 == [y1 EXCEPT !.cached = TRUE, !.got = pos - Header, !.buf = Units(r, Header, pos)]
           b  == [a EXCEPT !.s[r].cached = TRUE, !.s[r].got = pos - Header,
                           !.s[r].buf = Units(r, Header, pos)]
           whole == pos = Header + m.s[r].q.size
           y  == IF whole THEN [y2 EXCEPT !.phase = "full"]
                 ELSE [y2 EXCEPT !.phase = "payload", !.uploading = TRUE]
           n  == PayloadBegun(b, r)
<1>1. Typed(m) /\ m \in MachineType /\ m.s[r].q.size \in Nat /\ m.s[r].q \in Asked
  BY MachineFields DEF Good, Typed
<1>2. /\ y1 \in Session /\ Bounded(y1) /\ y1.uploading = m.s[r].uploading /\ y1.pos = pos
      /\ y1.q = m.s[r].q /\ y1.ret = m.s[r].ret /\ y1.handled = m.s[r].handled
      /\ a \in MachineType /\ a.s = [m.s EXCEPT ![r] = y1]
      /\ a.ram = m.ram /\ a.http = m.http /\ a.up = m.up /\ a.board = m.board
  BY <1>1, AtFields
<1> HIDE DEF y1, a
<1>3. a.s[r] = y1 /\ \A x \in Requests \ {r} : a.s[x] = m.s[x]
  BY <1>1, <1>2 DEF MachineType
<1>4. ~y1.handled
  BY <1>1, <1>2 DEF Typed, Bounded
<1>5. /\ Units(r, Header, pos) \in Seq(Unit) /\ Len(Units(r, Header, pos)) = pos - Header
      /\ pos - Header \in Nat /\ pos - Header <= m.s[r].q.size
  <2>1. Header \in Nat /\ pos - Header \in Nat /\ pos - Header <= m.s[r].q.size
    BY <1>1, HttpdAssumption
  <2> QED
    BY <2>1, UnitsType
<1>6. y2 \in Session
  BY <1>2, <1>5 DEF Session
<1>7. /\ y2.q = m.s[r].q /\ y2.pos = pos /\ y2.got = pos - Header /\ y2.cached
      /\ y2.buf = Units(r, Header, pos) /\ y2.uploading = m.s[r].uploading
      /\ ~y2.handled /\ y2.ret = m.s[r].ret
  BY <1>2, <1>4 DEF Session
<1> HIDE DEF y2
<1>8. /\ y \in Session /\ Bounded(y) /\ ~y.handled /\ y.q = m.s[r].q /\ y.ret = m.s[r].ret
      /\ y.cached
  <2>1. y \in Session
    BY <1>6 DEF Session, Phases
  <2>2. /\ ~y.handled /\ y.q = m.s[r].q /\ y.ret = m.s[r].ret /\ y.cached
        /\ y.pos = pos /\ y.got = pos - Header /\ y.buf = Units(r, Header, pos)
    BY <1>6, <1>7 DEF Session
  <2> QED
    BY <2>1, <2>2, <1>5 DEF Bounded
<1>9. b = [a EXCEPT !.s[r] = y2]
  <2> DEFINE ya == [y1 EXCEPT !.cached = TRUE]
             yb == [ya EXCEPT !.got = pos - Header]
             a1 == [a EXCEPT !.s[r] = ya]
             a2 == [a EXCEPT !.s[r] = yb]
  <2>1. ya \in Session /\ yb \in Session
    BY <1>2, <1>5 DEF Session
  <2>2. a1.s[r] = ya /\ a2.s[r] = yb
    BY <1>2 DEF MachineType
  <2>3. [a EXCEPT !.s[r].cached = TRUE] = a1
    BY <1>3
  <2>4. [a1 EXCEPT !.s[r].got = pos - Header] = a2
    <3>1. [a1 EXCEPT !.s[r].got = pos - Header]
            = [a1 EXCEPT !.s[r] = [a1.s[r] EXCEPT !.got = pos - Header]]
      OBVIOUS
    <3>2. [a1.s[r] EXCEPT !.got = pos - Header] = yb
      BY <2>2
    <3> HIDE DEF ya, yb
    <3>3. [a1 EXCEPT !.s[r] = yb] = a2
      BY <1>2, SetTwice
    <3> HIDE DEF a1, a2
    <3> QED
      BY <3>1, <3>2, <3>3
  <2>5. [a2 EXCEPT !.s[r].buf = Units(r, Header, pos)] = [a EXCEPT !.s[r] = y2]
    <3>1. [a2 EXCEPT !.s[r].buf = Units(r, Header, pos)]
            = [a2 EXCEPT !.s[r] = [a2.s[r] EXCEPT !.buf = Units(r, Header, pos)]]
      OBVIOUS
    <3>2. [a2.s[r] EXCEPT !.buf = Units(r, Header, pos)] = y2
      BY <2>2 DEF y2
    <3> HIDE DEF ya, yb
    <3>3. [a2 EXCEPT !.s[r] = y2] = [a EXCEPT !.s[r] = y2]
      BY <1>2, SetTwice
    <3> HIDE DEF a2
    <3> QED
      BY <3>1, <3>2, <3>3
  <2> QED
    BY <2>3, <2>4, <2>5
<1> HIDE DEF b
<1>10. /\ b \in MachineType /\ b.s = [a.s EXCEPT ![r] = y2] /\ b.s[r] = y2
       /\ b.ram = m.ram /\ b.http = m.http /\ b.up = m.up /\ b.board = m.board
  BY <1>2, <1>6, <1>9, SetSession
<1>11. (b.s[r].got = b.s[r].q.size) = whole
  BY <1>1, <1>5, <1>7, <1>10, HttpdAssumption, SMTT(20)
<1>12. /\ n \in MachineType /\ n.s = [b.s EXCEPT ![r] = y]
       /\ n.ram = m.ram /\ n.up = m.up /\ n.board = m.board
       /\ whole => n.http = m.http
       /\ ~whole => n.http = [m.http EXCEPT !.busy = TRUE]
  <2>1. n \in MachineType /\ n.ram = m.ram /\ n.up = m.up /\ n.board = m.board
    BY <1>10, PayloadBegunFields
  <2>2. CASE whole
    <3>1. b.s[r].got = b.s[r].q.size /\ y = [b.s[r] EXCEPT !.phase = "full"]
      BY <1>10, <1>11, <2>2
    <3>2. n.s = [b.s EXCEPT ![r].phase = "full"] /\ n.http = b.http
      BY <1>10, <3>1, PayloadBegunFields
    <3>3. [b.s EXCEPT ![r].phase = "full"] = [b.s EXCEPT ![r] = y]
      BY <3>1
    <3> HIDE DEF y, n
    <3> QED
      BY <1>10, <2>1, <2>2, <3>2, <3>3
  <2>3. CASE ~whole
    <3>1. b.s[r].got # b.s[r].q.size /\ y = [b.s[r] EXCEPT !.phase = "payload", !.uploading = TRUE]
      BY <1>10, <1>11, <2>3
    <3>2. /\ n.s = [b.s EXCEPT ![r] = [b.s[r] EXCEPT !.phase = "payload", !.uploading = TRUE]]
          /\ n.http = [b.http EXCEPT !.busy = TRUE]
      BY <1>10, <3>1, PayloadBegunFields
    <3> HIDE DEF y
    <3> QED
      BY <1>10, <2>1, <2>3, <3>1, <3>2
  <2> QED
    BY <2>1, <2>2, <2>3
<1>13. n.s = [m.s EXCEPT ![r] = y]
  BY <1>1, <1>2, <1>10, <1>12 DEF MachineType
<1>14. n.http.id = m.http.id /\ n.http.fresh = m.http.fresh
  BY <1>1, <1>12 DEF MachineType
<1>15. /\ whole  => y.phase = "full" /\ y.uploading = m.s[r].uploading
       /\ ~whole => y.phase = "payload" /\ y.uploading
  BY <1>6, <1>7 DEF Session
<1>16. Gentle => m.s[r].q.uri # "upload"
  BY <1>1, AskedFacts DEF Gentle
<1>a. m.http.busy => n.http.busy
  BY <1>1, <1>12 DEF MachineType
<1> HIDE DEF y, n
<1>17. Tidy(y) /\ ~Large(y)
  BY <1>8, <1>15 DEF Good, Marked, Tidy, Large
<1>18. Gentle => Plain(y)
  BY <1>8, <1>15, <1>16, <1>17 DEF Plain
<1>19. Good(n, c)
  BY <1>1, <1>8, <1>12, <1>13, <1>14, <1>17, <1>18, <1>a, PlainGood DEF Answered
<1>20. OwnStep(m, n, r)
  BY <1>1, <1>8, <1>12, <1>13 DEF MachineType, OwnStep
<1>21. n = CachedAt(m, r, pos)
  BY DEF n, b, a, CachedAt
<1> QED
  BY <1>19, <1>20, <1>21

(* A header in pieces whose last one is shorter than the whole.              *)
CrashedAt(m, r, pos) == [[m EXCEPT !.board.end.kind = "crash"] EXCEPT !.s[r].pos = pos]

LEMMA CrashGood ==
  ASSUME NEW c \in BOOLEAN, NEW m, Good(m, c), NEW r \in Requests, m.s[r].phase = "header", ~(c /\ Gentle),
         NEW pos \in Nat, pos <= Header + m.s[r].q.size
  PROVE  LET n == CrashedAt(m, r, pos)
         IN  /\ Good(n, c)
             /\ OwnStep(m, n, r)
<1> DEFINE k == [m EXCEPT !.board.end.kind = "crash"]
           n == [k EXCEPT !.s[r].pos = pos]
           y == [k.s[r] EXCEPT !.pos = pos]
<1>1. Typed(m) /\ m \in MachineType
  BY DEF Good, Typed
<1>2. /\ k \in MachineType /\ k.s = m.s /\ k.ram = m.ram /\ k.http = m.http /\ k.up = m.up
      /\ k.board.flash = m.board.flash /\ k.board.confirmed = m.board.confirmed
      /\ k.board.meddled = m.board.meddled /\ k.board.end.kind = "crash"
  BY <1>1 DEF MachineType
<1> HIDE DEF k
<1>3. Typed(k) /\ pos <= Header + k.s[r].q.size
  BY <1>1, <1>2 DEF Typed
<1>4. /\ y \in Session /\ Bounded(y) /\ y.phase = "header" /\ y.uploading = m.s[r].uploading
      /\ y.q = m.s[r].q
      /\ n \in MachineType /\ n.s = [m.s EXCEPT ![r] = y]
      /\ n.ram = k.ram /\ n.http = k.http /\ n.up = k.up /\ n.board = k.board
  BY <1>2, <1>3, AtFields
<1> HIDE DEF n, y
<1>5. Tidy(y) /\ ~Large(y)
  BY <1>4 DEF Good, Marked, Tidy, Large
<1>6. Good(n, c)
  BY <1>2, <1>4, <1>5, PlainGood DEF Answered
<1>7. OwnStep(m, n, r)
  BY <1>1, <1>2, <1>4 DEF MachineType, OwnStep
<1>8. n = CrashedAt(m, r, pos)
  BY DEF n, k, CrashedAt
<1> QED
  BY <1>6, <1>7, <1>8

NoneFull(m) == \A x \in Requests : m.s[x].phase # "full"

(* A large body begins in the upload area.                                   *)
LEMMA AreaGood ==
  ASSUME NEW c \in BOOLEAN, NEW m, Good(m, c), NoneFull(m), NEW r \in Requests, m.s[r].phase = "header",
         NEW k \in Nat, Header <= k, m.s[r].pos + k <= Header + m.s[r].q.size,
         ~m.http.busy
  PROVE  LET n == [AreaBegun(m, r, k) EXCEPT !.s[r].pos = m.s[r].pos + k]
         IN  /\ Good(n, c)
             /\ OwnStep(m, n, r)
<1> DEFINE n0    == AreaBegun(m, r, k)
           pos   == m.s[r].pos + k
           whole == k - Header = m.s[r].q.size
           y0 == IF whole THEN [m.s[r] EXCEPT !.got = k - Header, !.phase = "full"]
                 ELSE [m.s[r] EXCEPT !.got = k - Header, !.phase = "payload", !.uploading = TRUE]
           y  == [y0 EXCEPT !.pos = pos]
           n  == [n0 EXCEPT !.s[r].pos = pos]
           units == Units(r, m.s[r].pos + Header, pos)
<1>1. /\ Typed(m) /\ m \in MachineType /\ m.s[r] \in Session /\ m.s[r].q.size \in Nat
      /\ m.s[r].q \in Asked /\ m.s[r].pos \in Nat /\ Bounded(m.s[r])
      /\ k - Header \in Nat /\ k - Header <= m.s[r].q.size /\ pos \in Nat
  <2>1. Typed(m) /\ m \in MachineType /\ Bounded(m.s[r])
    BY DEF Good, Typed
  <2>2. /\ m.s[r] \in Session /\ m.s[r].q.size \in Nat
        /\ m.s[r].q \in Asked /\ m.s[r].pos \in Nat
    BY <2>1, MachineFields
  <2>3. Header \in Nat
    BY HttpdAssumption
  <2>4. \A h, p, z \in Nat : h <= k /\ p + k <= h + z =>
          k - h \in Nat /\ k - h <= z /\ p + k \in Nat
    OBVIOUS
  <2>5. k - Header \in Nat /\ k - Header <= m.s[r].q.size /\ pos \in Nat
    BY <2>2, <2>3, <2>4
  <2> QED
    BY <2>1, <2>2, <2>5
<1>2. /\ n0 \in MachineType
      /\ n0.s = [m.s EXCEPT ![r] = y0]
      /\ whole => n0.http.busy = m.http.busy
      /\ ~whole => n0.http.busy
      /\ n0.http.id = m.http.fresh /\ n0.http.fresh = m.http.fresh + 1
      /\ n0.ram = Stored(m.ram, 0, units) /\ n0.up = m.up
      /\ SameButMeddled(m, n0)
  <2>1. LET z == k - Header = m.s[r].q.size
        IN  /\ n0 \in MachineType
            /\ z  => /\ n0.s = [m.s EXCEPT ![r] = [m.s[r] EXCEPT !.got = k - Header, !.phase = "full"]]
                     /\ n0.http.busy = m.http.busy
            /\ ~z => /\ n0.s = [m.s EXCEPT ![r] = [m.s[r] EXCEPT !.got = k - Header,
                                       !.phase = "payload", !.uploading = TRUE]]
                     /\ n0.http.busy
            /\ n0.http.id = m.http.fresh /\ n0.http.fresh = m.http.fresh + 1
            /\ n0.ram = Stored(m.ram, 0, Units(r, m.s[r].pos + Header, m.s[r].pos + k))
            /\ n0.up = m.up
            /\ SameButMeddled(m, n0)
    BY <1>1, AreaBegunFields
  <2> HIDE DEF n0
  <2>2. CASE whole
    BY <2>1, <2>2
  <2>3. CASE ~whole
    BY <2>1, <2>3
  <2> QED
    BY <2>2, <2>3
<1>3. y0 \in Session
  BY <1>1 DEF Session, Phases
<1>4. /\ y0.q = m.s[r].q /\ y0.got = k - Header /\ y0.buf = m.s[r].buf
      /\ y0.pos = m.s[r].pos /\ ~y0.handled /\ ~y0.cached /\ y0.ret = m.s[r].ret
      /\ whole => y0.phase = "full" /\ y0.uploading = m.s[r].uploading
      /\ ~whole => y0.phase = "payload" /\ y0.uploading
  BY <1>1 DEF Session, Bounded
<1> HIDE DEF y0
<1>5. Bounded(y0)
  BY <1>1, <1>4 DEF Bounded, Session
<1>6. Typed(n0) /\ n0.s[r] = y0
  BY <1>1, <1>2, <1>3, <1>5, OneSession
<1> HIDE DEF n0
<1>7. /\ y \in Session /\ Bounded(y) /\ y.q = m.s[r].q /\ y.phase = y0.phase /\ y.got = k - Header
      /\ ~y.cached /\ y.uploading = y0.uploading /\ ~y.handled /\ y.ret = m.s[r].ret
      /\ y.pos = pos
      /\ n \in MachineType /\ Typed(n) /\ n.s = [n0.s EXCEPT ![r] = y]
      /\ n.ram = n0.ram /\ n.http = n0.http /\ n.up = n0.up /\ n.board = n0.board
  BY <1>1, <1>4, <1>6, AtFields
<1> HIDE DEF y, n
<1>8. n.s[r] = y /\ \A x \in Requests \ {r} : n.s[x] = m.s[x]
  BY <1>1, <1>2, <1>7 DEF MachineType
<1>9. /\ n.board.flash = m.board.flash /\ n.board.confirmed = m.board.confirmed
      /\ n.board.meddled <=> m.board.meddled \/ m.board.confirmed # 0
      /\ n.board.end = m.board.end
  BY <1>1, <1>2, <1>7 DEF MachineType, SameButMeddled
<1>10. \A x \in Requests : /\ n.s[x].q = m.s[x].q
                           /\ Answered(m, x) => Answered(n, x)
  BY <1>7, <1>8 DEF Answered
<1>11. Ids(n)
  BY <1>1, <1>2, <1>7, <1>9, <1>10, IdsFrame DEF Good
<1>12. ~UploadStands(n)
  BY <1>1, <1>2, <1>7 DEF Good, Ids, UploadStands, MachineType
<1>a. Marked(n)
  <2>1. Tidy(m.s[r]) /\ m.s[r].phase = "header"
    BY DEF Good, Marked
  <2>2. Tidy(y)
    BY <2>1, <1>4, <1>7 DEF Tidy
  <2> QED
    BY <2>2, <1>8 DEF Good, Marked
<1>b. c => \A x \in Requests : ~Large(m.s[x])
  BY DEF Good, Alone
<1>13. c => Alone(n)
  <2> SUFFICES ASSUME c PROVE Alone(n)
    OBVIOUS
  <2>1. Large(y) => n.http.busy
    BY <1>2, <1>4, <1>7 DEF Large
  <2> QED
    BY <2>1, <1>b, <1>8 DEF Alone
<1>14. c /\ Gentle => Imaged(n)
  <2> SUFFICES ASSUME c, Gentle PROVE Imaged(n)
    OBVIOUS
  <2>1. \A x \in Requests : ~Large(m.s[x])
    BY <1>b
  <2>2. m.s[r].pos = 0 /\ pos = k
    BY <1>1 DEF Good, Imaged
  <2>3. Whole(n, r, k - Header)
    <3> SUFFICES ASSUME NEW i \in 1 .. k - Header PROVE n.ram[i] = <<r, i>>
      BY DEF Whole
    <3>1. i \in Area
      BY <1>1, AskedFacts, AreaFacts
    <3>2. units = [j \in 1 .. k - Header |-> <<r, j>>]
      BY <1>1, <2>2, HttpdAssumption DEF Units
    <3>3. n.ram[i] = units[i]
      BY <1>1, <1>2, <1>7, <3>1, <3>2 DEF Stored, MachineType
    <3> QED
      BY <3>2, <3>3
  <2>4. \A x \in Requests : n.s[x].phase = "header" => n.s[x].pos = 0
    BY <1>4, <1>7, <1>8 DEF Good, Imaged
  <2>5. \A x \in Requests : Large(n.s[x]) =>
          /\ n.s[x].got = n.s[x].pos - Header /\ n.s[x].got < n.s[x].q.size
          /\ Whole(n, x, n.s[x].got)
    <3>1. SUFFICES ASSUME Large(y) PROVE y.got = y.pos - Header /\ y.got < y.q.size
      BY <1>7, <1>8, <2>1, <2>3
    <3>2. k - Header # m.s[r].q.size
      BY <1>4, <1>7, <3>1 DEF Large
    <3> QED
      BY <1>1, <1>7, <2>2, <3>2, HttpdAssumption
  <2>6. \A x \in Requests : n.s[x].phase = "full" =>
          /\ Whole(n, x, n.s[x].q.size)
          /\ \A z \in Requests : ~Large(n.s[z])
    <3>1. SUFFICES ASSUME y.phase = "full"
                   PROVE  Whole(n, r, y.q.size) /\ ~Large(y)
      BY <1>8, <2>1 DEF NoneFull
    <3>2. k - Header = m.s[r].q.size
      BY <1>4, <1>7, <3>1
    <3> QED
      BY <1>7, <2>3, <3>1, <3>2 DEF Large
  <2>8. \A x \in Requests : n.s[x].cached => n.s[x].q.uri # "upload"
    BY <1>7, <1>8 DEF Good, Imaged
  <2>7. \A i \in DOMAIN n.board.flash : Intact(n, n.board.flash[i])
    BY <1>1, <1>7, <1>9, <1>10, IntactFrame DEF Good, Imaged
  <2> QED
    BY <1>12, <2>4, <2>5, <2>6, <2>7, <2>8 DEF Imaged
<1>15. c /\ Gentle => Confirmed(n)
  <2>1. ~Untouched(n)
    BY <1>9 DEF Untouched
  <2> QED
    BY <2>1, <1>2, <1>7, <1>8, <1>9 DEF Good, Confirmed
<1> QED
  BY <1>7, <1>8, <1>9, <1>11, <1>13, <1>14, <1>15, <1>a DEF Good, OwnStep, n, n0

(* More of a body arrives.                                                   *)
LEMMA PayloadGood ==
  ASSUME NEW c \in BOOLEAN, NEW m, Good(m, c), NoneFull(m), NEW r \in Requests, m.s[r].phase = "payload",
         NEW k \in Nat, m.s[r].pos + k <= Header + m.s[r].q.size,
         c => ~Takes(m, RecvPayload(m, r, k))
  PROVE  LET n == RecvPayload(m, r, k)
         IN  /\ Good(n, c)
             /\ OwnStep(m, n, r)
<1> DEFINE left  == m.s[r].q.size - m.s[r].got
           size  == IF k < left THEN k ELSE left
           to    == m.s[r].pos + size
           units == Units(r, m.s[r].pos, to)
           y1 == [m.s[r] EXCEPT !.pos = @ + k, !.got = @ + size,
                    !.buf = IF m.s[r].cached THEN @ \o units ELSE @]
           area == IF m.s[r].cached THEN m.ram ELSE Stored(m.ram, m.s[r].got, units)
           m1 == [m EXCEPT !.s[r] = y1,
                    !.ram = IF m.s[r].cached THEN @ ELSE Stored(@, m.s[r].got, units)]
           whole == m.s[r].got + size = m.s[r].q.size
           y  == IF whole THEN [y1 EXCEPT !.phase = "full", !.uploading = FALSE] ELSE y1
           n  == RecvPayload(m, r, k)
<1>1. /\ Typed(m) /\ m \in MachineType /\ m.s[r] \in Session /\ m.s[r].q.size \in Nat
      /\ m.s[r].q \in Asked /\ m.s[r].pos \in Nat /\ m.s[r].got \in Nat
      /\ m.s[r].got <= m.s[r].q.size /\ m.s[r].buf \in Seq(Unit) /\ Bounded(m.s[r])
      /\ m.ram \in [Area -> Unit]
  BY MachineFields DEF Good, Typed, Bounded
<1>2. size \in Nat /\ size <= k /\ m.s[r].got + size <= m.s[r].q.size
  <2>1. left \in Nat /\ m.s[r].got + left = m.s[r].q.size
    BY <1>1
  <2> HIDE DEF left
  <2>2. size \in Nat /\ size <= k /\ size <= left
    BY <2>1
  <2> HIDE DEF size
  <2> QED
    BY <1>1, <2>1, <2>2
<1> HIDE DEF size
<1>3. units \in Seq(Unit) /\ Len(units) = size
  <2>1. to \in Nat /\ m.s[r].pos <= to /\ to - m.s[r].pos = size
    BY <1>1, <1>2, SMTT(20)
  <2> HIDE DEF to
  <2> QED
    BY <1>1, <2>1, UnitsType
<1>4. area \in [Area -> Unit]
  BY <1>1, <1>3, StoredType
<1> HIDE DEF to, units, area
<1>5. /\ y1 \in Session
      /\ y1.q = m.s[r].q /\ y1.phase = "payload" /\ y1.uploading = m.s[r].uploading
      /\ y1.cached = m.s[r].cached /\ y1.handled = m.s[r].handled /\ y1.ret = m.s[r].ret
      /\ y1.pos = m.s[r].pos + k /\ y1.got = m.s[r].got + size
      /\ y1.buf = IF m.s[r].cached THEN m.s[r].buf \o units ELSE m.s[r].buf
  <2>1. m.s[r].pos + k \in Nat /\ m.s[r].got + size \in Nat /\ m.s[r].buf \o units \in Seq(Unit)
    BY <1>1, <1>2, <1>3
  <2> QED
    BY <1>1, <2>1 DEF Session
<1>6. n = IF m1.s[r].got = m.s[r].q.size THEN FullyReceived(m1, r) ELSE m1
  BY DEF RecvPayload, units, size, to
<1> HIDE DEF y1
<1>7. /\ m1 \in MachineType /\ m1.s = [m.s EXCEPT ![r] = y1] /\ m1.s[r] = y1
      /\ m1.ram = area
      /\ m1.http = m.http /\ m1.up = m.up /\ m1.board = m.board
  BY <1>1, <1>4, <1>5 DEF MachineType, area
<1> HIDE DEF m1, n
<1>8. Bounded(y1)
  <2>1. y1.pos <= Header + y1.q.size /\ y1.got <= y1.q.size
    BY <1>1, <1>2, <1>5
  <2>2. Len(y1.buf) <= y1.got
    <3>1. Len(m.s[r].buf) <= m.s[r].got /\ Len(m.s[r].buf) \in Nat
      BY <1>1 DEF Bounded
    <3>2. Len(m.s[r].buf \o units) = Len(m.s[r].buf) + size
      <4>1. \A a, b \in Seq(Unit) : Len(a \o b) = Len(a) + Len(b)
        OBVIOUS
      <4> QED
        BY <1>1, <1>3, <4>1
    <3> QED
      BY <1>1, <1>2, <1>5, <3>1, <3>2
  <2>3. ~y1.handled
    BY <1>1, <1>5 DEF Bounded
  <2> QED
    BY <1>5, <2>1, <2>2, <2>3 DEF Bounded
<1>9. /\ y \in Session /\ Bounded(y) /\ y.q = m.s[r].q /\ ~y.handled /\ y.ret = m.s[r].ret
      /\ y.cached = m.s[r].cached /\ y.pos = m.s[r].pos + k /\ y.got = m.s[r].got + size
      /\ whole  => y.phase = "full" /\ ~y.uploading
      /\ ~whole => y.phase = "payload" /\ y.uploading = m.s[r].uploading
  <2>1. ~y1.handled
    BY <1>5, <1>8 DEF Bounded
  <2>2. CASE whole
    <3>1. y = [y1 EXCEPT !.phase = "full", !.uploading = FALSE]
      BY <2>2
    <3> HIDE DEF y
    <3>2. /\ y \in Session
          /\ \A f \in {"q", "pos", "got", "cached", "buf", "handled", "ret"} : y[f] = y1[f]
          /\ y.phase = "full" /\ ~y.uploading
      BY <1>5, <3>1 DEF Session, Phases
    <3> QED
      BY <1>5, <1>8, <2>1, <2>2, <3>2 DEF Bounded
  <2>3. CASE ~whole
    BY <1>5, <1>8, <2>1, <2>3
  <2> QED
    BY <2>2, <2>3
<1>10. /\ n \in MachineType /\ n.s = [m.s EXCEPT ![r] = y]
       /\ n.http.id = m.http.id /\ n.http.fresh = m.http.fresh
       /\ ~whole => n.http = m.http
       /\ n.ram = area /\ n.up = m.up /\ n.board = m.board
  <2>1. CASE whole
    <3>1. n = FullyReceived(m1, r)
      BY <1>1, <1>5, <1>6, <1>7, <2>1
    <3>2. y = [m1.s[r] EXCEPT !.phase = "full", !.uploading = FALSE]
      BY <1>7, <2>1
    <3> HIDE DEF y
    <3>3. /\ n \in MachineType /\ n.s = [m1.s EXCEPT ![r] = y]
          /\ n.http = [m1.http EXCEPT !.busy = FALSE]
          /\ n.ram = m1.ram /\ n.up = m1.up /\ n.board = m1.board
      BY <1>7, <3>1, <3>2, FullyReceivedFields
    <3>4. n.s = [m.s EXCEPT ![r] = y]
      BY <1>1, <1>7, <3>3 DEF MachineType
    <3>5. n.http.id = m.http.id /\ n.http.fresh = m.http.fresh
      BY <1>1, <1>7, <3>3 DEF MachineType
    <3> QED
      BY <1>7, <2>1, <3>3, <3>4, <3>5
  <2>2. CASE ~whole
    BY <1>1, <1>5, <1>6, <1>7, <2>2
  <2> QED
    BY <2>1, <2>2
<1> HIDE DEF y
<1>11. n.s[r] = y /\ \A x \in Requests \ {r} : n.s[x] = m.s[x]
  BY <1>1, <1>10 DEF MachineType
<1>12. Typed(n)
  BY <1>1, <1>9, <1>10, OneSession
<1>13. \A x \in Requests : /\ n.s[x].q = m.s[x].q
                           /\ Answered(m, x) => Answered(n, x)
  BY <1>9, <1>11 DEF Answered
<1>14. Ids(n) /\ (UploadStands(n) => UploadStands(m))
  BY <1>1, <1>10, <1>13, IdsFrame DEF Good
<1>a. OwnStep(m, n, r)
  BY <1>9, <1>10, <1>11 DEF OwnStep
<1>b. Tidy(y)
  <2>1. m.s[r].uploading
    BY DEF Good, Marked, Tidy
  <2> QED
    BY <2>1, <1>9 DEF Tidy
<1>c. c => ~Takes(m, n)
  BY DEF n
<1>d. c => (m.http.busy /\ (\E x \in Requests \ {r} : Large(m.s[x])) => n.http.busy)
  <2> SUFFICES ASSUME c, m.http.busy, NEW x \in Requests \ {r}, Large(m.s[x]), whole
               PROVE  FALSE
    BY <1>10
  <2>1. m.s[r].uploading
    BY DEF Good, Marked, Tidy
  <2>2. m.s[r].cached
    BY DEF Good, Alone, Large
  <2> QED
    BY <1>9, <1>11, <1>c, <2>1, <2>2 DEF Takes
<1>e. m.s[r].cached => Good(n, c)
  <2> SUFFICES ASSUME m.s[r].cached PROVE Good(n, c)
    OBVIOUS
  <2>1. n.ram = m.ram
    BY <1>10 DEF area
  <2>2. ~Large(y)
    BY <1>9 DEF Large
  <2>3. c /\ Gentle => Plain(y)
    <3> SUFFICES ASSUME c, Gentle PROVE Plain(y)
      OBVIOUS
    <3>1. m.s[r].q.uri # "upload"
      BY DEF Good, Imaged
    <3>2. y.phase # "header"
      BY <1>9
    <3> QED
      BY <1>9, <2>2, <3>1, <3>2 DEF Plain
  <2>4. /\ ~Answered(m, r) /\ (y.ret = 0 => m.s[r].ret = 0) /\ ~y.handled
        /\ n.board.flash = m.board.flash /\ n.board.confirmed = m.board.confirmed
        /\ m.board.meddled => n.board.meddled
    BY <1>9, <1>10 DEF Answered
  <2> QED
    BY <1>9, <1>10, <1>b, <1>d, <2>1, <2>2, <2>3, <2>4, PlainGood
<1>f. SUFFICES ASSUME ~m.s[r].cached PROVE Good(n, c)
  BY <1>a, <1>e DEF n
<1>g. Large(m.s[r]) /\ Marked(n)
  BY <1>11, <1>b, <1>f DEF Good, Marked, Large
<1>16. c => /\ m.http.busy /\ \A x \in Requests \ {r} : ~Large(m.s[x]) /\ ~Large(n.s[x])
  BY <1>11, <1>g DEF Good, Alone
<1>h. whole => ~Large(y)
  BY <1>9 DEF Large
<1>15. c => Alone(n)
  <2> SUFFICES ASSUME c PROVE Alone(n)
    OBVIOUS
  <2>1. Large(y) => n.http.busy
    BY <1>10, <1>16, <1>h
  <2> QED
    BY <1>11, <1>16, <2>1 DEF Alone
<1>17. c /\ Gentle => Imaged(n)
  <2> SUFFICES ASSUME c, Gentle PROVE Imaged(n)
    OBVIOUS
  <2>1. /\ ~UploadStands(n) /\ m.s[r].got = m.s[r].pos - Header /\ Whole(m, r, m.s[r].got)
    BY <1>14, <1>g DEF Good, Imaged
  <2>2. size = k
    <3>1. k <= left /\ left \in Int
      <4>1. \A a, b, d, h \in Nat : b = a - h /\ a + k <= h + d => k <= d - b
        OBVIOUS
      <4>2. Header \in Nat /\ m.s[r].got = m.s[r].pos - Header
        BY <2>1, HttpdAssumption
      <4> HIDE DEF left
      <4>3. k <= m.s[r].q.size - m.s[r].got
        BY <1>1, <4>1, <4>2
      <4>4. m.s[r].q.size - m.s[r].got \in Int
        BY <1>1
      <4> QED
        BY <4>3, <4>4 DEF left
    <3> HIDE DEF left
    <3> QED
      BY <3>1 DEF size
  <2>3. Whole(n, r, m.s[r].got + size)
    <3> SUFFICES ASSUME NEW i \in 1 .. m.s[r].got + size PROVE n.ram[i] = <<r, i>>
      BY DEF Whole
    <3>1. i \in Area
      <4>1. PICK top \in Nat : Area = 1 .. top /\ \A z \in Sizes \cup {0} : z <= top
        BY AreaFacts
      <4>2. m.s[r].q.size <= top
        BY <1>1, <4>1, AskedFacts
      <4> QED
        BY <1>1, <1>2, <4>1, <4>2
    <3>2. units = [j \in 1 .. size |-> <<r, m.s[r].got + j>>]
      BY <1>1, <1>2, <2>1, HttpdAssumption DEF Units, units, to
    <3>3. n.ram[i] = IF i - m.s[r].got \in 1 .. size THEN units[i - m.s[r].got] ELSE m.ram[i]
      BY <1>1, <1>10, <1>f, <3>1, <3>2 DEF Stored, area
    <3>4. CASE i <= m.s[r].got
      <4>1. i \in 1 .. m.s[r].got /\ i - m.s[r].got \notin 1 .. size
        BY <1>1, <1>2, <3>4
      <4> QED
        BY <2>1, <3>3, <4>1 DEF Whole
    <3>5. CASE i > m.s[r].got
      <4>1. i - m.s[r].got \in 1 .. size /\ m.s[r].got + (i - m.s[r].got) = i
        BY <1>1, <1>2, <3>5, SMTT(20)
      <4> QED
        BY <3>2, <3>3, <4>1
    <3> QED
      BY <1>1, <1>2, <3>4, <3>5
  <2>4. \A x \in Requests : n.s[x].phase = "header" => n.s[x].pos = 0
    BY <1>9, <1>11 DEF Good, Imaged
  <2>5. \A x \in Requests : Large(n.s[x]) =>
          /\ n.s[x].got = n.s[x].pos - Header /\ n.s[x].got < n.s[x].q.size
          /\ Whole(n, x, n.s[x].got)
    <3>1. Large(n.s[r]) => /\ y.got = y.pos - Header /\ y.got < y.q.size
                           /\ Whole(n, r, y.got)
      <4>1. SUFFICES ASSUME ~whole
                     PROVE  /\ y.got = y.pos - Header /\ y.got < y.q.size
                            /\ Whole(n, r, y.got)
        BY <1>11, <1>h
      <4>2. y.got = m.s[r].got + k /\ y.pos = m.s[r].pos + k
        BY <1>9, <2>2
      <4>3. y.got = y.pos - Header
        BY <1>1, <2>1, <4>2, HttpdAssumption
      <4>4. y.got < y.q.size
        <5>1. m.s[r].got + size < m.s[r].q.size
          <6>1. \A a, b, d \in Nat : a + b <= d /\ a + b # d => a + b < d
            OBVIOUS
          <6> QED
            BY <1>1, <1>2, <4>1, <6>1
        <5> QED
          BY <1>9, <5>1
      <4> QED
        BY <1>9, <2>3, <4>3, <4>4
    <3> QED
      BY <1>11, <1>16, <3>1
  <2>6. \A x \in Requests : n.s[x].phase = "full" =>
          /\ Whole(n, x, n.s[x].q.size)
          /\ \A z \in Requests : ~Large(n.s[z])
    BY <1>9, <1>11, <1>16, <1>h, <2>3 DEF NoneFull
  <2>8. \A x \in Requests : n.s[x].cached => n.s[x].q.uri # "upload"
    BY <1>9, <1>11, <1>f DEF Good, Imaged
  <2>7. \A i \in DOMAIN n.board.flash : Intact(n, n.board.flash[i])
    BY <1>1, <1>10, <1>13, IntactFrame DEF Good, Imaged
  <2> QED
    BY <2>1, <2>4, <2>5, <2>6, <2>7, <2>8 DEF Imaged
<1>18. c /\ Gentle => Confirmed(n)
  <2>1. c /\ Gentle => ~Untouched(n)
    BY <1>10, <1>g DEF Good, Confirmed, Untouched
  <2> QED
    BY <2>1, <1>9, <1>10, <1>11 DEF Good, Confirmed
<1> QED
  BY <1>12, <1>14, <1>15, <1>17, <1>18, <1>g DEF Good

LEMMA RecvHdrGood ==
  ASSUME NEW c \in BOOLEAN, NEW m, Good(m, c), NoneFull(m), NEW r \in Requests, m.s[r].phase = "header",
         NEW k \in Nat, m.s[r].pos + k <= Header + m.s[r].q.size,
         "splitHeader" \in Env \/ Header <= m.s[r].pos + k,
         c => ~Takes(m, RecvHdr(m, r, k))
  PROVE  Good(RecvHdr(m, r, k), c) /\ OwnStep(m, RecvHdr(m, r, k), r)
<1> DEFINE pos == m.s[r].pos + k
           q   == m.s[r].q
           at  == [m EXCEPT !.s[r].pos = pos]
           n   == RecvHdr(m, r, k)
<1>1. m \in MachineType /\ m.s[r].pos \in Nat /\ pos \in Nat /\ m.s[r].q.size \in Nat
      /\ pos <= Header + m.s[r].q.size
  BY MachineFields DEF Good, Typed
<1>2. CASE pos < Header
  <2>1. ~(c /\ Gentle) /\ pos <= Header
    BY <1>1, <1>2, HttpdAssumption DEF Gentle
  <2>2. n = at
    BY <1>2 DEF RecvHdr
  <2> QED
    BY <1>1, <2>1, <2>2, HeaderGood
<1>3. ~(pos < Header) => Header <= pos
  BY <1>1, HttpdAssumption
<1>4. CASE ~(pos < Header) /\ q.uri = "result"
  <2>1. n = Bodiless(m, r, pos)
    BY <1>4 DEF RecvHdr, Bodiless
  <2> HIDE DEF pos
  <2> QED
    BY <1>1, <1>4, <2>1, BodilessGood
<1>5. CASE ~(pos < Header) /\ q.uri # "result" /\ Fits(q.size)
  <2>1. n = CachedAt(m, r, pos)
    BY <1>5 DEF RecvHdr, CachedAt
  <2> HIDE DEF pos
  <2> QED
    BY <1>1, <1>3, <1>5, <2>1, CachedGood
<1>6. CASE ~(pos < Header) /\ q.uri # "result" /\ ~Fits(q.size) /\ m.http.busy
  <2>1. n = Dropped(m, r)
    BY <1>6 DEF RecvHdr, MayUseArea
  <2> QED
    BY <2>1, DroppedGood
<1>7. CASE ~(pos < Header) /\ q.uri # "result" /\ ~Fits(q.size) /\ ~m.http.busy
  <2>1. n = [AreaBegun(m, r, k) EXCEPT !.s[r].pos = pos]
    BY <1>7 DEF RecvHdr, MayUseArea
  <2>2. CASE k < Header
    <3>1. ~(c /\ Gentle)
      <4>1. m.s[r].pos # 0
        BY <1>1, <1>7, <2>2, HttpdAssumption
      <4> QED
        BY <4>1 DEF Good, Imaged
    <3>2. n = CrashedAt(m, r, pos)
      BY <2>1, <2>2 DEF AreaBegun, CrashedAt
    <3> HIDE DEF pos
    <3> QED
      BY <1>1, <3>1, <3>2, CrashGood
  <2>3. CASE Header <= k
    BY <1>7, <2>1, <2>3, AreaGood
  <2> QED
    BY <2>2, <2>3, HttpdAssumption
<1> QED
  BY <1>2, <1>4, <1>5, <1>6, <1>7

(* What the upload area holds from its beginning.                            *)
LEMMA AreaPrefix ==
  ASSUME NEW area \in [Area -> Unit], NEW n \in Sizes \cup {0}
  PROVE  /\ SubSeq(area, 1, n) \in Seq(Unit)
         /\ SubSeq(area, 1, n) = [i \in 1 .. n |-> area[i]]
<1>1. PICK top \in Nat : Area = 1 .. top /\ \A k \in Sizes \cup {0} : k <= top
  BY AreaFacts
<1>2. n \in Nat /\ n <= top
  BY <1>1, HttpdAssumption
<1>3. area \in Seq(Unit) /\ Len(area) = top
  BY <1>1
<1>4. SubSeq(area, 1, n) \in Seq(Unit)
  BY <1>2, <1>3
<1>5. SubSeq(area, 1, n) = [i \in 1 .. n |-> area[i]]
  BY <1>1, <1>2, <1>3
<1> QED
  BY <1>4, <1>5

LEMMA UploadedFields ==
  ASSUME NEW m \in MachineType, NEW r \in Requests, m.s[r].q.uri = "upload", NEW ok \in BOOLEAN
  PROVE  LET n == Uploaded(m, r, ok)
         IN  /\ n \in MachineType
             /\ n.s = m.s /\ n.ram = m.ram /\ n.http = m.http /\ SameButMeddled(m, n)
             /\ n.up.type = m.s[r].q.field /\ n.up.auto = m.up.auto
             /\ ~ok => /\ n.up.id = m.up.id /\ n.up.of = m.up.of
                       /\ n.up.size = m.up.size /\ n.up.cached = m.up.cached
             /\ ok  => /\ n.up.id = m.http.id /\ n.up.of = r
                       /\ n.up.size = m.s[r].q.size /\ n.up.cached = m.s[r].cached
<1> DEFINE q     == m.s[r].q
           m0    == Meddle(m, r)
           typed == [m0 EXCEPT !.up.type = q.field]
           after == [typed.up EXCEPT !.id = m.http.id, !.of = r, !.size = q.size,
                                     !.cached = m.s[r].cached]
<1>1. /\ q.field \in Fields /\ q.size \in Sizes \cup {0} /\ m.s[r].cached \in BOOLEAN
      /\ m.http.id \in Int
  BY MachineFields, AskedFacts DEF Session, MachineType
<1>2. /\ m0 \in MachineType /\ m0.s = m.s /\ m0.ram = m.ram /\ m0.http = m.http /\ m0.up = m.up
      /\ SameButMeddled(m, m0)
  BY MeddleFields
<1> HIDE DEF m0
<1>3. /\ typed \in MachineType /\ typed.s = m.s /\ typed.ram = m.ram /\ typed.http = m.http
      /\ typed.board = m0.board
      /\ typed.up.type = q.field /\ typed.up.auto = m.up.auto
      /\ typed.up.id = m.up.id /\ typed.up.of = m.up.of
      /\ typed.up.size = m.up.size /\ typed.up.cached = m.up.cached
  BY <1>1, <1>2 DEF MachineType
<1>4. CASE ~ok
  <2>1. Uploaded(m, r, ok) = typed
    BY <1>4 DEF Uploaded, m0
  <2> QED
    BY <1>2, <1>3, <1>4, <2>1 DEF SameButMeddled
<1>5. CASE ok
  <2>1. Uploaded(m, r, ok) = [typed EXCEPT !.up = after]
    BY <1>5 DEF Uploaded, m0
  <2> HIDE DEF typed
  <2>2. typed.up \in [id : Int, of : Requests \cup {0}, size : Sizes \cup {0}, cached : BOOLEAN,
                      type : Fields, auto : BOOLEAN]
    BY <1>3 DEF MachineType
  <2>3. /\ after \in [id : Int, of : Requests \cup {0}, size : Sizes \cup {0}, cached : BOOLEAN,
                      type : Fields, auto : BOOLEAN]
        /\ after.id = m.http.id /\ after.of = r /\ after.size = q.size
        /\ after.cached = m.s[r].cached /\ after.type = typed.up.type /\ after.auto = typed.up.auto
    BY <1>1, <2>2
  <2> HIDE DEF after
  <2>4. /\ [typed EXCEPT !.up = after] \in MachineType
        /\ [typed EXCEPT !.up = after].up = after
        /\ [typed EXCEPT !.up = after].s = typed.s /\ [typed EXCEPT !.up = after].ram = typed.ram
        /\ [typed EXCEPT !.up = after].http = typed.http
        /\ [typed EXCEPT !.up = after].board = typed.board
    BY <1>3, <2>3 DEF MachineType
  <2> DEFINE z == [typed EXCEPT !.up = after]
  <2>5. Uploaded(m, r, ok) = z
    BY <2>1
  <2>6. /\ z \in MachineType /\ z.up = after /\ z.s = m.s /\ z.ram = m.ram /\ z.http = m.http
        /\ z.board = m0.board
    BY <1>3, <2>4
  <2> HIDE DEF z
  <2>7. SameButMeddled(m, z)
    BY <1>2, <2>6 DEF SameButMeddled
  <2> QED
    BY <1>3, <1>5, <2>3, <2>5, <2>6, <2>7
<1> QED
  BY <1>4, <1>5

(* The handler runs as soon as the request is complete.                      *)
LEMMA HandledGood ==
  ASSUME NEW c \in BOOLEAN, NEW m, Good(m, c), NEW r \in Requests, m.s[r].phase = "full", m.s[r].q = s[r].q,
         \A z \in Requests \ {r} : m.s[z].phase # "full",
         NEW ok \in Verdicts(m, r)
  PROVE  LET n == Handled(m, r, ok)
         IN  /\ Good(n, c) /\ n.s[r].phase = "responding"
             /\ OwnStep(m, n, r)
<1> DEFINE x  == m.s[r]
           m1 == CASE x.q.uri = "upload" -> Uploaded(m, r, ok)
                   [] x.q.uri = "result" -> Meddle(m, r)
                   [] OTHER              -> m
           buf == IF x.q.uri = "result" THEN x.buf ELSE [i \in DOMAIN x.buf |-> Garbage]
           y  == [x EXCEPT !.phase = "responding", !.handled = TRUE, !.buf = buf]
           n  == Handled(m, r, ok)
<1>1. /\ Typed(m) /\ m \in MachineType /\ x \in Session /\ x.q \in Asked /\ Bounded(x)
      /\ x.buf \in Seq(Unit) /\ x.q.size \in Nat /\ m.ram \in [Area -> Unit] /\ Ids(m)
      /\ x.q.uri \in {"result", "upload", "other"}
  BY MachineFields, AskedFacts DEF Good, Typed
<1>2. ok \in BOOLEAN
  BY <1>1, AskedFacts DEF Verdicts
<1>3. /\ m1 \in MachineType /\ m1.s = m.s /\ m1.ram = m.ram /\ m1.http = m.http
      /\ m1.up.auto = m.up.auto
      /\ m1.board.flash = m.board.flash /\ m1.board.confirmed = m.board.confirmed
      /\ m1.board.end = m.board.end
      /\ x.q.uri # "other" => (m1.board.meddled <=> m.board.meddled \/ m.board.confirmed # 0)
      /\ x.q.uri = "other" => m1 = m
      /\ x.q.uri = "result" => m1.up = m.up
      /\ x.q.uri = "upload" =>
           /\ m1.up.type = x.q.field
           /\ ~ok => /\ m1.up.id = m.up.id /\ m1.up.of = m.up.of
                     /\ m1.up.size = m.up.size /\ m1.up.cached = m.up.cached
           /\ ok  => /\ m1.up.id = m.http.id /\ m1.up.of = r
                     /\ m1.up.size = x.q.size /\ m1.up.cached = x.cached
  <2>1. CASE x.q.uri = "upload"
    <3>1. m1 = Uploaded(m, r, ok)
      BY <2>1
    <3> QED
      BY <1>1, <1>2, <2>1, <3>1, UploadedFields DEF SameButMeddled
  <2>2. CASE x.q.uri = "result"
    <3>1. m1 = Meddle(m, r)
      BY <2>2
    <3> QED
      BY <1>1, <2>2, <3>1, MeddleFields DEF SameButMeddled
  <2>3. CASE x.q.uri = "other"
    <3>1. m1 = m
      BY <2>3
    <3> QED
      BY <1>1, <2>3, <3>1
  <2> QED
    BY <1>1, <2>1, <2>2, <2>3
<1>4. buf \in Seq(Unit) /\ Len(buf) = Len(x.buf)
  <2>1. [i \in DOMAIN x.buf |-> Garbage] \in [1 .. Len(x.buf) -> Unit] /\ Len(x.buf) \in Nat
    BY <1>1 DEF Garbage, Unit
  <2>2. \A k \in Nat : \A f \in [1 .. k -> Unit] : f \in Seq(Unit) /\ Len(f) = k
    OBVIOUS
  <2>3. /\ [i \in DOMAIN x.buf |-> Garbage] \in Seq(Unit)
        /\ Len([i \in DOMAIN x.buf |-> Garbage]) = Len(x.buf)
    BY <2>1, <2>2
  <2> QED
    BY <1>1, <2>3
<1>5. n = [m1 EXCEPT !.s[r] = y]
  BY DEF Handled
<1> HIDE DEF buf, m1, n
<1>6. /\ y \in Session /\ y.q = x.q /\ y.phase = "responding" /\ y.handled
      /\ y.uploading = x.uploading /\ y.cached = x.cached /\ y.ret = x.ret
      /\ y.pos = x.pos /\ y.got = x.got /\ y.buf = buf
  BY <1>1, <1>4 DEF Session, Phases
<1> HIDE DEF y
<1>7. Bounded(y)
  BY <1>1, <1>4, <1>6 DEF Bounded
<1>8. /\ n \in MachineType /\ n.s = [m.s EXCEPT ![r] = y]
      /\ n.ram = m.ram /\ n.http = m.http /\ n.up = m1.up /\ n.board = m1.board
  BY <1>3, <1>5, <1>6, SetSession
<1>9. n.s[r] = y /\ \A z \in Requests \ {r} : n.s[z] = m.s[z]
  BY <1>1, <1>8 DEF MachineType
<1>10. Typed(n)
  BY <1>1, <1>6, <1>7, <1>8, OneSession
<1>11. \A z \in Requests : /\ n.s[z].q = m.s[z].q
                           /\ Answered(m, z) => Answered(n, z)
  BY <1>6, <1>9 DEF Answered
<1>12. ~(x.q.uri = "upload" /\ ok) => Ids(n) /\ (UploadStands(n) => UploadStands(m))
  <2> SUFFICES ASSUME ~(x.q.uri = "upload" /\ ok)
               PROVE  Ids(n) /\ (UploadStands(n) => UploadStands(m))
    OBVIOUS
  <2>1. /\ n.up.id = m.up.id /\ n.up.of = m.up.of
        /\ n.up.size = m.up.size /\ n.up.cached = m.up.cached
        /\ n.board.flash = m.board.flash
    BY <1>1, <1>3, <1>8
  <2> QED
    BY <1>1, <1>8, <1>11, <2>1, IdsFrame
<1>13. x.q.uri = "upload" /\ ok => Ids(n)
  <2> SUFFICES ASSUME x.q.uri = "upload", ok PROVE Ids(n)
    OBVIOUS
  <2>1. /\ n.up.id = m.http.id /\ n.up.of = r /\ n.up.size = n.s[r].q.size
        /\ n.board.flash = m.board.flash /\ n.http = m.http
    BY <1>3, <1>6, <1>8, <1>9
  <2>2. Answered(n, r) /\ ~Answered(m, r)
    BY <1>6, <1>9 DEF Answered
  <2>3. \A i \in DOMAIN m.board.flash : m.board.flash[i].of \in Requests
    <3>1. \A i \in DOMAIN m.board.flash : m.board.flash[i] \in Entry
      BY <1>1 DEF MachineType
    <3> QED
      BY <3>1 DEF Entry
  <2>4. \A i \in DOMAIN m.board.flash : Answered(n, m.board.flash[i].of) /\ m.board.flash[i].of # r
    BY <1>1, <1>11, <2>2, <2>3 DEF Ids
  <2> QED
    BY <1>1, <2>1, <2>2, <2>4 DEF Ids
<1>14. ~x.uploading
  BY DEF Good, Marked, Tidy
<1>15. Marked(n) /\ (c => Alone(n)) /\ ~Large(y)
  <2>1. Tidy(y) /\ ~Large(y)
    BY <1>6, <1>14 DEF Tidy, Large
  <2>2. Marked(n)
    BY <1>9, <2>1 DEF Good, Marked
  <2>3. c => Alone(n)
    BY <1>8, <1>9, <2>1 DEF Good, Alone
  <2> QED
    BY <2>1, <2>2, <2>3
<1>16. c /\ Gentle => Imaged(n)
  <2> SUFFICES ASSUME c, Gentle PROVE Imaged(n)
    OBVIOUS
  <2>1. Plain(y) /\ ~(x.q.uri = "upload" /\ x.cached)
    BY <1>6, <1>15 DEF Good, Imaged, Plain
  <2>2. \A i \in DOMAIN n.board.flash : Intact(n, n.board.flash[i])
    BY <1>1, <1>3, <1>8, <1>11, IntactFrame DEF Good, Imaged
  <2>3. CASE x.q.uri # "upload"
    <3>1. SameImage(m, n)
      BY <1>1, <1>3, <1>8, <1>11, <1>12, <2>3 DEF SameImage
    <3>2. \A z \in Requests : n.s[z] = m.s[z] \/ Plain(n.s[z])
      BY <1>9, <2>1
    <3> QED
      BY <1>1, <1>3, <1>8, <3>1, <3>2, ImagedFrame DEF Good
  <2>4. CASE x.q.uri = "upload"
    <3>1. ~UploadStands(m) /\ ~x.cached /\ Whole(m, r, x.q.size)
      BY <2>1, <2>4 DEF Good, Imaged
    <3>2. UploadStands(n) => Holds(n)
      <4> SUFFICES ASSUME UploadStands(n) PROVE Holds(n)
        OBVIOUS
      <4>1. ok
        BY <1>12, <3>1
      <4>2. /\ n.up.of = r /\ ~n.up.cached /\ n.up.type = n.s[r].q.field
            /\ n.up.size = x.q.size
        BY <1>3, <1>6, <1>8, <1>9, <2>4, <3>1, <4>1
      <4>3. SubSeq(m.ram, 1, x.q.size) = [i \in 1 .. x.q.size |-> m.ram[i]]
        BY <1>1, AskedFacts, AreaPrefix
      <4>4. [i \in 1 .. x.q.size |-> m.ram[i]] = Payload(r)
        BY <3>1 DEF Whole, Payload
      <4>5. x.q.valid
        BY <1>1, <2>4, <3>1, <4>1, <4>3, <4>4, AskedFacts DEF Verdicts, Fields
      <4> QED
        BY <1>6, <1>8, <1>9, <3>1, <4>2, <4>5 DEF Holds, Whole
    <3>3. \A z \in Requests : n.s[z].phase # "header" \/ n.s[z] = m.s[z]
      BY <1>6, <1>9
    <3>4. \A z \in Requests : ~Large(n.s[z])
      BY <1>9, <1>15, <2>4 DEF Good, Imaged
    <3>5. \A z \in Requests : n.s[z].phase = "header" => n.s[z].pos = 0
      BY <3>3 DEF Good, Imaged
    <3>6. \A z \in Requests : n.s[z].phase = "full" => z # r
      BY <1>6, <1>9
    <3>7. \A z \in Requests : n.s[z].cached => n.s[z].q.uri # "upload"
      BY <1>9, <2>1 DEF Good, Imaged, Plain
    <3> QED
      BY <1>9, <2>2, <3>2, <3>4, <3>5, <3>6, <3>7 DEF Imaged, NoneFull
  <2> QED
    BY <2>3, <2>4
<1>17. c /\ Gentle => Confirmed(n)
  <2> SUFFICES ASSUME c, Gentle PROVE Confirmed(n)
    OBVIOUS
  <2>1. CASE x.q.uri = "other"
    <3>1. SameImage(m, n)
      BY <1>1, <1>3, <1>8, <1>11, <1>12, <2>1 DEF SameImage
    <3>2. \A z \in Requests : /\ n.s[z].ret = 0 => m.s[z].ret = 0
                              /\ Large(n.s[z]) => Large(m.s[z])
                              /\ Waiting(n, z) => Waiting(m, z)
      BY <1>6, <1>9, <1>15, <2>1 DEF Waiting
    <3>3. n.board = m.board /\ n.up = m.up
      BY <1>3, <1>8, <2>1
    <3> QED
      BY <1>1, <1>8, <3>1, <3>2, <3>3, ConfirmedFrame DEF Good, Untouched
  <2>2. CASE x.q.uri # "other"
    <3>1. ~Untouched(n)
      BY <1>3, <1>8, <2>2 DEF Untouched
    <3>2. n.board.confirmed = m.board.confirmed /\ n.up.auto = m.up.auto
      BY <1>3, <1>8
    <3> QED
      BY <1>6, <1>9, <3>1, <3>2 DEF Good, Confirmed
  <2> QED
    BY <2>1, <2>2
<1> QED
  BY <1>3, <1>6, <1>8, <1>9, <1>10, <1>12, <1>13, <1>15, <1>16, <1>17 DEF Good, OwnStep, n

(* The failsafe is to be left, or not.                                       *)
LEMMA AutoGood ==
  ASSUME NEW c \in BOOLEAN, NEW m, Good(m, c), NEW n \in MachineType,
         n.s = m.s, n.ram = m.ram, n.http = m.http, n.board = m.board,
         n.up.id = m.up.id, n.up.of = m.up.of, n.up.size = m.up.size,
         n.up.cached = m.up.cached, n.up.type = m.up.type,
         c /\ Gentle /\ n.up.auto => m.board.confirmed # 0,
         c /\ Gentle /\ n.up.auto => \A x \in Requests : ~Waiting(m, x) \/ ~Untouched(m)
  PROVE  Good(n, c)
<1>1. Typed(m) /\ m \in MachineType /\ Ids(m)
  BY DEF Good, Typed
<1>2. Typed(n)
  BY <1>1 DEF Typed
<1>3. Ids(n) /\ (UploadStands(n) => UploadStands(m))
  BY <1>1, IdsFrame DEF Answered
<1>4. Marked(n) /\ (c => Alone(n))
  BY DEF Good, Marked, Alone
<1>5. SameImage(m, n)
  BY <1>3 DEF SameImage
<1>6. c /\ Gentle => Imaged(n)
  BY <1>1, <1>5, ImagedFrame DEF Good
<1>7. c /\ Gentle => Confirmed(n)
  <2> SUFFICES ASSUME c, Gentle PROVE Confirmed(n)
    OBVIOUS
  <2>1. Untouched(n) <=> Untouched(m)
    BY DEF Untouched
  <2>2. Untouched(n) => Holds(n) /\ n.up.of = n.board.confirmed
    BY <1>1, <1>5, <2>1, HoldsFrame DEF Good, Confirmed
  <2>3. \A x \in Requests : Waiting(n, x) <=> Waiting(m, x)
    BY DEF Waiting
  <2> QED
    BY <2>1, <2>2, <2>3 DEF Good, Confirmed
<1> QED
  BY <1>2, <1>3, <1>4, <1>6, <1>7 DEF Good

(* A connection ends; the end of a /result decides whether to leave.         *)
LEMMA CleanupGood ==
  ASSUME NEW c \in BOOLEAN, NEW m, Good(m, c), NEW r \in Requests, m.s[r].phase # "lost",
         NEW auto \in BOOLEAN, c => ~Takes(m, Cleanup(m, r, auto))
  PROVE  Good(Cleanup(m, r, auto), c) /\ OwnStep(m, Cleanup(m, r, auto), r)
         /\ Cleanup(m, r, auto).s[r].phase = "gone"
<1> DEFINE k == ResultClosed(m, r, auto)
           d == Dropped(m, r)
           n == Dropped(k, r)
<1>1. Typed(m) /\ m \in MachineType
  BY DEF Good, Typed
<1>a. Cleanup(m, r, auto).s = d.s
  <2>1. CASE m.s[r].handled /\ m.s[r].q.uri = "result"
    <3>1. k \in MachineType /\ k.s = m.s
      BY <1>1 DEF ResultClosed, MachineType
    <3>2. Cleanup(m, r, auto) = n
      BY <2>1 DEF Cleanup
    <3> HIDE DEF k
    <3>3. n.s = [k.s EXCEPT ![r] = Freed(k.s[r])]
      BY <3>1, DroppedFields
    <3>4. d.s = [m.s EXCEPT ![r] = Freed(m.s[r])]
      BY <1>1, DroppedFields
    <3> QED
      BY <3>1, <3>2, <3>3, <3>4
  <2>2. CASE ~(m.s[r].handled /\ m.s[r].q.uri = "result")
    BY <2>2 DEF Cleanup
  <2> QED
    BY <2>1, <2>2
<1>b. c => ~Takes(m, d)
  BY <1>a DEF Takes
<1>2. /\ Good(d, c) /\ OwnStep(m, d, r)
      /\ d \in MachineType /\ d.s = [m.s EXCEPT ![r] = Freed(m.s[r])]
      /\ d.http = [m.http EXCEPT !.busy = @ /\ ~m.s[r].uploading]
      /\ d.ram = m.ram /\ d.up = m.up /\ d.board = m.board
  BY <1>1, <1>b, DroppedGood, DroppedFields
<1>3. Freed(m.s[r]).phase = "gone" /\ ~Freed(m.s[r]).handled
  BY <1>1, MachineFields, FreedType
<1>4. d.s[r].phase = "gone" /\ ~d.s[r].handled
  BY <1>1, <1>2, <1>3 DEF MachineType
<1>5. CASE m.s[r].handled /\ m.s[r].q.uri = "result"
  <2>1. /\ k \in MachineType /\ k.s = m.s /\ k.ram = m.ram /\ k.http = m.http
        /\ k.board = m.board
        /\ k.up.id = m.up.id /\ k.up.of = m.up.of /\ k.up.size = m.up.size
        /\ k.up.cached = m.up.cached /\ k.up.type = m.up.type
        /\ k.up.auto => m.s[r].ret = 0
    BY <1>1 DEF ResultClosed, MachineType
  <2> HIDE DEF k, d
  <2>2. /\ n \in MachineType /\ n.s = [k.s EXCEPT ![r] = Freed(k.s[r])]
        /\ n.http = [k.http EXCEPT !.busy = @ /\ ~k.s[r].uploading]
        /\ n.ram = k.ram /\ n.up = k.up /\ n.board = k.board
    BY <2>1, DroppedFields
  <2> HIDE DEF n
  <2>3. /\ n.s = d.s /\ n.ram = d.ram /\ n.http = d.http /\ n.board = d.board
        /\ n.up.id = d.up.id /\ n.up.of = d.up.of /\ n.up.size = d.up.size
        /\ n.up.cached = d.up.cached /\ n.up.type = d.up.type
    BY <1>2, <2>1, <2>2
  <2>4. c /\ Gentle /\ n.up.auto => d.board.confirmed # 0
    BY <1>2, <2>1, <2>2 DEF Good, Confirmed
  <2>5. c /\ Gentle => \A x \in Requests : ~Waiting(d, x) \/ ~Untouched(d)
    <3>1. Waiting(m, r)
      BY <1>5 DEF Waiting
    <3>2. \A x \in Requests \ {r} : Waiting(d, x) <=> Waiting(m, x)
      BY <1>2 DEF Waiting, OwnStep
    <3>3. Untouched(d) <=> Untouched(m)
      BY <1>2 DEF Untouched
    <3> QED
      BY <1>4, <3>1, <3>2, <3>3 DEF Good, Confirmed, Waiting
  <2>6. Good(n, c)
    BY <1>2, <2>2, <2>3, <2>4, <2>5, AutoGood
  <2>7. Cleanup(m, r, auto) = n
    BY <1>5 DEF Cleanup, n, k
  <2> QED
    BY <1>2, <1>4, <2>3, <2>6, <2>7 DEF OwnStep
<1>6. CASE ~(m.s[r].handled /\ m.s[r].q.uri = "result")
  <2>1. Cleanup(m, r, auto) = d
    BY <1>6 DEF Cleanup
  <2> QED
    BY <1>2, <1>4, <2>1
<1> QED
  BY <1>5, <1>6

(* The image at upload_data.                                                 *)
LEMMA ImageType ==
  ASSUME NEW m, Typed(m), m.up.cached => m.up.of \in Requests
  PROVE  /\ ImageAt(m) \in Seq(Unit)
         /\ Holds(m) => ImageAt(m) = Image(m.up.of, m.up.size)
<1>1. m \in MachineType /\ m.up.size \in Sizes \cup {0} /\ m.ram \in [Area -> Unit]
  BY DEF Typed, MachineType
<1>2. m.up.size \in Nat
  <2>1. \A k \in Sizes \cup {0} : k \in Nat
    BY HttpdAssumption
  <2> HIDE DEF Typed
  <2> QED
    BY <1>1, <2>1
<1>3. CASE m.up.cached
  <2> DEFINE buf == m.s[m.up.of].buf
             img == [i \in 1 .. m.up.size |-> IF i \in DOMAIN buf THEN buf[i] ELSE Garbage]
  <2>1. buf \in Seq(Unit)
    BY <1>1, <1>3, MachineFields
  <2>2. \A i \in DOMAIN buf : buf[i] \in Unit
    BY <2>1
  <2>3. img \in [1 .. m.up.size -> Unit]
    BY <2>2 DEF Garbage, Unit
  <2>4. img \in Seq(Unit)
    BY <1>2, <2>3
  <2>5. ImageAt(m) = img
    BY <1>3 DEF ImageAt
  <2> QED
    BY <1>3, <2>4, <2>5 DEF Holds
<1>4. CASE ~m.up.cached
  <2>1. ImageAt(m) = SubSeq(m.ram, 1, m.up.size)
    BY <1>4 DEF ImageAt
  <2>2. /\ SubSeq(m.ram, 1, m.up.size) \in Seq(Unit)
        /\ SubSeq(m.ram, 1, m.up.size) = [i \in 1 .. m.up.size |-> m.ram[i]]
    BY <1>1, AreaPrefix
  <2>3. Holds(m) => [i \in 1 .. m.up.size |-> m.ram[i]] = Image(m.up.of, m.up.size)
    BY DEF Holds, Whole, Image
  <2> QED
    BY <2>1, <2>2, <2>3
<1> QED
  BY <1>3, <1>4

(* What the first call of the /result handler does, field by field.          *)
Writes(m) == UploadStands(m) /\ m.up.type # "initramfs"
Confirms(m, wrote) == UploadStands(m) /\ (m.up.type = "initramfs" \/ wrote)
NewEntry(m) == [of |-> m.up.of, type |-> m.up.type, image |-> ImageAt(m)]
Sent(m, r, wrote) ==
  IF Confirms(m, wrote) THEN [m.s[r] EXCEPT !.ret = 0, !.sent = 1]
  ELSE [m.s[r] EXCEPT !.sent = 1]

LEMMA FlashedFields ==
  ASSUME NEW c \in BOOLEAN, NEW m, Good(m, c), NEW r \in Requests, NEW wrote \in BOOLEAN
  PROVE  LET n == Flashed(m, r, wrote)
             y == Sent(m, r, wrote)
         IN  /\ n \in MachineType /\ y \in Session /\ n.s = [m.s EXCEPT ![r] = y]
             /\ n.ram = m.ram /\ n.board.end = m.board.end
             /\ n.http.busy = m.http.busy /\ n.http.id = m.http.id
             /\ n.http.fresh = m.http.fresh + 1
             /\ n.up.id = m.http.fresh /\ n.up.of = m.up.of /\ n.up.size = m.up.size
             /\ n.up.cached = m.up.cached /\ n.up.type = m.up.type /\ n.up.auto = m.up.auto
             /\ Writes(m) => NewEntry(m) \in Entry /\ n.board.flash = Append(m.board.flash, NewEntry(m))
             /\ ~Writes(m) => n.board.flash = m.board.flash
             /\ Confirms(m, wrote) =>
                  /\ n.board.confirmed = m.up.of
                  /\ n.board.meddled <=> m.up.auto \/ \E o \in Open \ {r} : m.s[o].q.uri = "result"
             /\ ~Confirms(m, wrote) =>
                  n.board.confirmed = m.board.confirmed /\ n.board.meddled = m.board.meddled
<1> DEFINE boots == m.up.type = "initramfs"
           ok    == UploadStands(m) /\ (boots \/ wrote)
           entry == [of |-> m.up.of, type |-> m.up.type, image |-> ImageAt(m)]
           med   == m.up.auto \/ \E o \in Open \ {r} : m.s[o].q.uri = "result"
           m1 == IF UploadStands(m) /\ ~boots
                 THEN [m EXCEPT !.board.flash = Append(@, entry)] ELSE m
           m2 == IF ok
                 THEN [m1 EXCEPT !.board.confirmed = m.up.of, !.s[r].ret = 0,
                                 !.board.meddled = med]
                 ELSE m1
           m3 == Invalidated(m2)
           n  == [m3 EXCEPT !.s[r].sent = 1]
           y  == IF ok THEN [m.s[r] EXCEPT !.ret = 0, !.sent = 1]
                 ELSE [m.s[r] EXCEPT !.sent = 1]
<1>1. Typed(m) /\ m \in MachineType /\ Ids(m) /\ m.s[r] \in Session
  BY MachineFields DEF Good, Typed
<1>2. UploadStands(m) => entry \in Entry
  BY <1>1, ImageType DEF Ids, MachineType, Entry
<1>3. /\ m1 \in MachineType /\ m1.s = m.s /\ m1.ram = m.ram /\ m1.http = m.http /\ m1.up = m.up
      /\ UploadStands(m) /\ ~boots => m1.board.flash = Append(m.board.flash, entry)
      /\ ~(UploadStands(m) /\ ~boots) => m1.board.flash = m.board.flash
      /\ m1.board.confirmed = m.board.confirmed /\ m1.board.meddled = m.board.meddled
      /\ m1.board.end = m.board.end
  <2> HIDE DEF entry
  <2>1. CASE UploadStands(m) /\ ~boots
    <3>1. m1 = [m EXCEPT !.board.flash = Append(@, entry)]
      BY <2>1
    <3>2. Append(m.board.flash, entry) \in Seq(Entry)
      BY <1>1, <1>2, <2>1 DEF MachineType
    <3> QED
      BY <1>1, <2>1, <3>1, <3>2 DEF MachineType
  <2>2. CASE ~(UploadStands(m) /\ ~boots)
    BY <1>1, <2>2
  <2> QED
    BY <2>1, <2>2
<1> HIDE DEF m1
<1>4. med \in BOOLEAN
  BY <1>1 DEF MachineType
<1> HIDE DEF med
<1>5. m.up.of \in Requests \cup {0} /\ (ok => m.up.of \in Requests)
  BY <1>1 DEF MachineType, Ids
<1> HIDE DEF boots
<1>6. /\ m2 \in MachineType /\ m2.ram = m.ram /\ m2.http = m.http /\ m2.up = m.up
      /\ m2.board.flash = m1.board.flash /\ m2.board.end = m1.board.end
      /\ ok  => /\ m2.s = [m.s EXCEPT ![r] = [m.s[r] EXCEPT !.ret = 0]]
                /\ m2.board.confirmed = m.up.of /\ m2.board.meddled = med
      /\ ~ok => m2 = m1
  <2>1. CASE ok
    <3> DEFINE b  == [m1.board EXCEPT !.confirmed = m.up.of, !.meddled = med]
               yr == [m.s[r] EXCEPT !.ret = 0]
               ma == [m1 EXCEPT !.board.confirmed = m.up.of]
               mb == [ma EXCEPT !.s[r].ret = 0]
    <3>1. yr \in Session
      BY <1>1 DEF Session
    <3>2. /\ ma \in MachineType /\ ma.s = m.s /\ ma.ram = m.ram /\ ma.http = m.http /\ ma.up = m.up
          /\ ma.board.flash = m1.board.flash /\ ma.board.confirmed = m.up.of
          /\ ma.board.end = m1.board.end
      BY <1>3, <1>5 DEF MachineType
    <3> HIDE DEF ma
    <3>3. mb = [ma EXCEPT !.s[r] = yr]
      BY <3>2
    <3> HIDE DEF mb, yr
    <3>4. /\ mb \in MachineType /\ mb.s = [m.s EXCEPT ![r] = yr]
          /\ mb.ram = m.ram /\ mb.http = m.http /\ mb.up = m.up /\ mb.board = ma.board
      BY <3>1, <3>2, <3>3, SetSession
    <3>5. m2 = [mb EXCEPT !.board.meddled = med]
      BY <2>1 DEF mb, ma
    <3> HIDE DEF m2
    <3>6. /\ m2 \in MachineType /\ m2.s = mb.s /\ m2.ram = m.ram /\ m2.http = m.http /\ m2.up = m.up
          /\ m2.board.flash = m1.board.flash /\ m2.board.confirmed = m.up.of
          /\ m2.board.meddled = med /\ m2.board.end = m1.board.end
      BY <1>4, <3>2, <3>4, <3>5 DEF MachineType
    <3> QED
      BY <2>1, <3>4, <3>6 DEF yr
  <2>2. CASE ~ok
    BY <1>3, <2>2
  <2> QED
    BY <2>1, <2>2
<1> HIDE DEF m2
<1>7. /\ m3 \in MachineType /\ m3.s = m2.s /\ m3.ram = m2.ram /\ m3.board = m2.board
      /\ m3.http.busy = m.http.busy /\ m3.http.id = m.http.id /\ m3.http.fresh = m.http.fresh + 1
      /\ m3.up.id = m.http.fresh /\ m3.up.of = m.up.of /\ m3.up.size = m.up.size
      /\ m3.up.cached = m.up.cached /\ m3.up.type = m.up.type /\ m3.up.auto = m.up.auto
  <2>1. m.http.fresh \in Int /\ m.http.fresh + 1 \in Int
    BY <1>1 DEF MachineType
  <2> QED
    BY <1>6, <2>1 DEF MachineType, Invalidated
<1> HIDE DEF m3
<1>8. /\ y \in Session
      /\ n \in MachineType /\ n.s = [m.s EXCEPT ![r] = y]
      /\ n.ram = m3.ram /\ n.http = m3.http /\ n.up = m3.up /\ n.board = m3.board
  <2> DEFINE yr == IF ok THEN [m.s[r] EXCEPT !.ret = 0] ELSE m.s[r]
             ys == [yr EXCEPT !.sent = 1]
  <2>1. m3.s[r] = yr /\ yr \in Session /\ m3.s = [m.s EXCEPT ![r] = yr]
    <3>1. CASE ok
      <4>1. [m.s[r] EXCEPT !.ret = 0] \in Session
        BY <1>1 DEF Session
      <4>2. yr = [m.s[r] EXCEPT !.ret = 0]
        BY <3>1
      <4> HIDE DEF yr
      <4>3. m3.s = [m.s EXCEPT ![r] = yr]
        BY <1>6, <1>7, <3>1, <4>2
      <4> QED
        BY <1>1, <4>1, <4>2, <4>3 DEF MachineType
    <3>2. CASE ~ok
      BY <1>1, <1>3, <1>6, <1>7, <3>2 DEF MachineType
    <3> QED
      BY <3>1, <3>2
  <2>2. ys \in Session /\ ys = y /\ y \in Session
    <3>1. ys \in Session
      BY <2>1 DEF Session
    <3>2. ys = y
      OBVIOUS
    <3> QED
      BY <3>1, <3>2
  <2> HIDE DEF y
  <2>3. n = [m3 EXCEPT !.s[r] = y]
    BY <2>1, <2>2
  <2> HIDE DEF n, ys, yr
  <2>4. /\ n \in MachineType /\ n.s = [m3.s EXCEPT ![r] = y]
        /\ n.ram = m3.ram /\ n.http = m3.http /\ n.up = m3.up /\ n.board = m3.board
    BY <1>7, <2>2, <2>3, SetSession
  <2>5. n.s = [m.s EXCEPT ![r] = y]
    BY <1>1, <2>1, <2>4 DEF MachineType
  <2> QED
    BY <2>2, <2>4, <2>5
<1>9. Flashed(m, r, wrote) = n
  BY DEF Flashed, n, m3, m2, m1, med, boots
<1> HIDE DEF n, y
<1>10. /\ n.ram = m.ram
       /\ n.board.flash = m1.board.flash /\ n.board.end = m.board.end
       /\ ok  => n.board.confirmed = m.up.of /\ n.board.meddled = med
       /\ ~ok => n.board.confirmed = m.board.confirmed /\ n.board.meddled = m.board.meddled
  BY <1>3, <1>6, <1>7, <1>8
<1> QED
  BY <1>2, <1>3, <1>7, <1>8, <1>9, <1>10
     DEF boots, med, y, Writes, Confirms, NewEntry, Sent

(* The image that stands is flashed, or left to be booted, and is used up.   *)
LEMMA FlashedGood ==
  ASSUME NEW c \in BOOLEAN, NEW m, Good(m, c), m.s = s, NEW r \in Requests, m.s[r].phase = "responding",
         NEW wrote \in BOOLEAN
  PROVE  Good(Flashed(m, r, wrote), c) /\ OwnStep(m, Flashed(m, r, wrote), r)
         /\ Flashed(m, r, wrote).s[r].phase = "responding"
<1> DEFINE n     == Flashed(m, r, wrote)
           ok    == Confirms(m, wrote)
           new   == Writes(m)
           entry == NewEntry(m)
           y     == Sent(m, r, wrote)
<1>0. /\ ok \/ new => UploadStands(m)
      /\ entry.of = m.up.of /\ entry.type = m.up.type /\ entry.image = ImageAt(m)
  BY DEF Confirms, Writes, NewEntry
<1>1. Typed(m) /\ m \in MachineType /\ Ids(m) /\ m.s[r] \in Session /\ Bounded(m.s[r])
  BY MachineFields DEF Good, Typed
<1>2. /\ n \in MachineType /\ y \in Session /\ n.s = [m.s EXCEPT ![r] = y]
      /\ n.ram = m.ram /\ n.board.end = m.board.end
      /\ n.http.busy = m.http.busy /\ n.http.id = m.http.id
      /\ n.http.fresh = m.http.fresh + 1
      /\ n.up.id = m.http.fresh /\ n.up.of = m.up.of /\ n.up.size = m.up.size
      /\ n.up.cached = m.up.cached /\ n.up.type = m.up.type /\ n.up.auto = m.up.auto
      /\ new => entry \in Entry /\ n.board.flash = Append(m.board.flash, entry)
      /\ ~new => n.board.flash = m.board.flash
      /\ ok  => /\ n.board.confirmed = m.up.of
                /\ n.board.meddled <=> m.up.auto \/ \E o \in Open \ {r} : m.s[o].q.uri = "result"
      /\ ~ok => n.board.confirmed = m.board.confirmed /\ n.board.meddled = m.board.meddled
  BY FlashedFields
<1> HIDE DEF n
<1>3. /\ y.q = m.s[r].q /\ y.phase = m.s[r].phase /\ y.pos = m.s[r].pos /\ y.got = m.s[r].got
      /\ y.cached = m.s[r].cached /\ y.uploading = m.s[r].uploading /\ y.buf = m.s[r].buf
      /\ y.handled = m.s[r].handled
      /\ ok => y.ret = 0
      /\ ~ok => y.ret = m.s[r].ret
  BY <1>1 DEF Session, Sent
<1> HIDE DEF y
<1>4. Bounded(y)
  BY <1>1, <1>3 DEF Bounded
<1>5. n.s[r] = y /\ \A x \in Requests \ {r} : n.s[x] = m.s[x]
  BY <1>1, <1>2 DEF MachineType
<1>6. Typed(n)
  BY <1>1, <1>2, <1>4, OneSession
<1>7. \A x \in Requests : /\ n.s[x].q = m.s[x].q /\ n.s[x].phase = m.s[x].phase
                          /\ n.s[x].uploading = m.s[x].uploading
                          /\ n.s[x].cached = m.s[x].cached /\ n.s[x].pos = m.s[x].pos
                          /\ n.s[x].got = m.s[x].got /\ n.s[x].handled = m.s[x].handled
                          /\ Answered(m, x) <=> Answered(n, x)
  BY <1>3, <1>5 DEF Answered
<1>8. /\ m.http.id \in Int /\ m.http.fresh \in Int /\ m.board.flash \in Seq(Entry)
      /\ \A i \in DOMAIN m.board.flash : m.board.flash[i].of \in Requests
  <2>1. m.board.flash \in Seq(Entry) /\ m.http.id \in Int /\ m.http.fresh \in Int
    BY <1>1 DEF MachineType
  <2>2. \A i \in DOMAIN m.board.flash : m.board.flash[i] \in Entry
    BY <2>1
  <2> QED
    BY <2>1, <2>2 DEF Entry
<1>9. ~UploadStands(n)
  BY <1>1, <1>2, <1>8 DEF Ids, UploadStands
<1>10. new => /\ DOMAIN n.board.flash = DOMAIN m.board.flash \cup {Len(m.board.flash) + 1}
              /\ Len(m.board.flash) + 1 \notin DOMAIN m.board.flash
              /\ n.board.flash[Len(m.board.flash) + 1] = entry
              /\ \A i \in DOMAIN m.board.flash : n.board.flash[i] = m.board.flash[i]
  <2>1. \A f \in Seq(Entry), e \in Entry :
          /\ DOMAIN Append(f, e) = DOMAIN f \cup {Len(f) + 1} /\ Len(f) + 1 \notin DOMAIN f
          /\ Append(f, e)[Len(f) + 1] = e
          /\ \A i \in DOMAIN f : Append(f, e)[i] = f[i]
    OBVIOUS
  <2> HIDE DEF entry
  <2> QED
    BY <1>2, <1>8, <2>1
<1>11. Ids(n)
  <2>1. n.http.id \in -1 .. n.http.fresh - 1 /\ n.up.id \in -1 .. n.http.fresh - 1
    BY <1>1, <1>2, <1>8 DEF Ids
  <2>2. /\ n.up.cached => n.up.of \in Requests
        /\ n.up.of \in Requests => n.up.size = n.s[n.up.of].q.size /\ Answered(n, n.up.of)
    BY <1>1, <1>2, <1>7 DEF Ids
  <2>3. CASE new
    <3>1. m.up.of \in Requests /\ Answered(n, m.up.of)
      BY <1>0, <1>1, <1>7, <2>3 DEF Ids
    <3>2. \A i \in DOMAIN m.board.flash : m.board.flash[i].of # m.up.of
      BY <1>0, <1>1, <2>3 DEF Ids
    <3>3. \A i \in DOMAIN n.board.flash : Answered(n, n.board.flash[i].of)
      BY <1>0, <1>1, <1>7, <1>8, <1>10, <2>3, <3>1 DEF Ids
    <3>4. \A i, j \in DOMAIN n.board.flash : n.board.flash[i].of = n.board.flash[j].of => i = j
      BY <1>0, <1>1, <1>10, <2>3, <3>2 DEF Ids
    <3> QED
      BY <1>9, <2>1, <2>2, <3>3, <3>4 DEF Ids
  <2>4. CASE ~new
    BY <1>1, <1>2, <1>7, <1>8, <1>9, <2>1, <2>2, <2>4 DEF Ids
  <2> QED
    BY <2>3, <2>4
<1>a. \A x \in Requests : (Tidy(m.s[x]) => Tidy(n.s[x])) /\ (Large(n.s[x]) <=> Large(m.s[x]))
  BY <1>7 DEF Tidy, Large
<1>12. Marked(n) /\ (c => Alone(n))
  BY <1>2, <1>a DEF Good, Marked, Alone
<1>13. SameImage(m, n)
  BY <1>2, <1>7, <1>9 DEF SameImage
<1>14. c /\ Gentle => Imaged(n)
  <2> SUFFICES ASSUME c, Gentle PROVE Imaged(n)
    OBVIOUS
  <2>1. \A i \in DOMAIN m.board.flash : Intact(n, m.board.flash[i])
    <3>1. \A i \in DOMAIN m.board.flash : Intact(m, m.board.flash[i])
      BY DEF Good, Imaged
    <3> QED
      BY <1>7, <1>8, <3>1 DEF Intact
  <2>2. new => Intact(n, entry)
    <3> SUFFICES ASSUME new PROVE Intact(n, entry)
      OBVIOUS
    <3>1. Holds(m) /\ m.up.of \in Requests
      BY <1>0 DEF Good, Imaged, Holds
    <3>2. ImageAt(m) = Image(m.up.of, m.up.size)
      BY <1>1, <3>1, ImageType
    <3>3. m.up.size = n.s[m.up.of].q.size
      BY <1>1, <1>7, <3>1 DEF Ids
    <3>4. entry.image = Image(entry.of, n.s[entry.of].q.size)
      BY <1>0, <3>2, <3>3
    <3>5. entry.type = n.s[entry.of].q.field /\ n.s[entry.of].q.valid
      BY <1>0, <1>7, <3>1 DEF Holds
    <3> HIDE DEF entry, n
    <3> QED
      BY <3>4, <3>5 DEF Intact
  <2>3. \A i \in DOMAIN n.board.flash : Intact(n, n.board.flash[i])
    BY <1>2, <1>10, <2>1, <2>2
  <2>4. \A x \in Requests : Large(n.s[x]) =>
          /\ n.s[x].got = n.s[x].pos - Header /\ n.s[x].got < n.s[x].q.size
          /\ Whole(n, x, n.s[x].got)
    BY <1>2, <1>7, <1>a DEF Good, Imaged, Whole
  <2>5. \A x \in Requests : n.s[x].phase = "full" /\ n.s[x].q.uri = "upload" =>
          /\ Whole(n, x, n.s[x].q.size)
          /\ \A z \in Requests : ~Large(n.s[z])
    BY <1>2, <1>7, <1>a DEF Good, Imaged, Whole
  <2>6. \A x \in Requests : n.s[x].phase = "header" => n.s[x].pos = 0
    BY <1>7 DEF Good, Imaged
  <2>7. \A x \in Requests : n.s[x].cached => n.s[x].q.uri # "upload"
    BY <1>7 DEF Good, Imaged
  <2> QED
    BY <1>9, <2>3, <2>4, <2>5, <2>6, <2>7 DEF Imaged
<1>15. c /\ Gentle => Confirmed(n)
  <2> SUFFICES ASSUME c, Gentle PROVE Confirmed(n)
    OBVIOUS
  <2>1. \A x \in Requests : Waiting(n, x) <=> Waiting(m, x)
    BY <1>7 DEF Waiting
  <2>2. CASE ok
    <3>1. Holds(n) /\ n.up.of = n.board.confirmed /\ m.up.of # 0
      <4>1. Holds(m) /\ m.up.of \in Requests
        BY <1>0, <2>2 DEF Good, Imaged, Holds
      <4> QED
        BY <1>1, <1>2, <1>13, <2>2, <4>1, HoldsFrame DEF Requests
    <3>2. \A x \in Requests : ~Large(n.s[x])
      BY <1>0, <1>a, <2>2 DEF Good, Imaged
    <3>3. Untouched(n) => ~m.up.auto /\ \A o \in Open \ {r} : m.s[o].q.uri # "result"
      BY <1>2, <2>2 DEF Untouched
    <3>4. Untouched(n) => \A a \in Requests : Waiting(n, a) => a = r
      <4>1. \A a \in Requests : Waiting(m, a) => a \in Open
        BY <1>1 DEF Typed, Bounded, Waiting, Open
      <4> QED
        BY <2>1, <3>3, <4>1 DEF Waiting
    <3> QED
      BY <1>2, <2>2, <3>1, <3>2, <3>3, <3>4 DEF Confirmed
  <2>3. CASE ~ok
    <3>1. \A x \in Requests : n.s[x].ret = 0 => m.s[x].ret = 0
      BY <1>3, <1>5, <2>3
    <3>2. Untouched(n) => Untouched(m)
      BY <1>2, <2>3 DEF Untouched
    <3> QED
      BY <1>1, <1>2, <1>a, <1>13, <2>1, <2>3, <3>1, <3>2, ConfirmedFrame DEF Good
  <2> QED
    BY <2>2, <2>3
<1>16. OwnStep(m, n, r) /\ n.s[r].phase = "responding"
  BY <1>2, <1>3, <1>5 DEF OwnStep
<1> QED
  BY <1>6, <1>11, <1>12, <1>14, <1>15, <1>16 DEF Good, n

----------------------------------------------------------------------------
(* The steps *)

IInv ==
  /\ stolen \in BOOLEAN
  /\ Good(Machine, ~stolen)
  /\ NoneFull(Machine)
  /\ Gentle => ActsOnConfirmed

LEMMA BecomesMachine ==
  ASSUME NEW m \in MachineType, Becomes(m)
  PROVE  Machine' = m
BY DEF Becomes, Machine, MachineType

(* A mark that was taken away once makes no claim stronger, and is not       *)
(* forgotten.                                                                *)
LEMMA GoodStays ==
  ASSUME NEW c \in BOOLEAN, NEW m, Good(m, c), NEW d \in BOOLEAN, d => c
  PROVE  Good(m, d)
BY DEF Good

LEMMA BecomesStolen ==
  ASSUME IInv, NEW m, Becomes(m)
  PROVE  /\ stolen' \in BOOLEAN /\ (~stolen') \in BOOLEAN
         /\ ~stolen' => ~stolen /\ ~Takes(Machine, m)
<1>1. stolen' = (stolen \/ Unmarks(m)) /\ stolen \in BOOLEAN
  BY DEF Becomes, IInv
<1>2. Unmarks(m) <=> Takes(Machine, m)
  BY DEF Unmarks, Takes, Machine
<1>3. Unmarks(m) \in BOOLEAN
  BY DEF Unmarks
<1> QED
  BY <1>1, <1>2, <1>3

LEMMA InitGood == Init => IInv
<1> SUFFICES ASSUME Init PROVE IInv
  OBVIOUS
<1> DEFINE m == Machine
<1>1. /\ m.s = [r \in Requests |-> Idle] /\ m.ram = [i \in Area |-> Garbage]
      /\ m.http = [busy |-> FALSE, id |-> -1, fresh |-> 1]
      /\ m.up = [id |-> 0, of |-> 0, size |-> 0, cached |-> FALSE, type |-> "firmware",
                 auto |-> FALSE]
      /\ m.board = [flash |-> <<>>, confirmed |-> 0, meddled |-> FALSE,
                    end |-> [kind |-> "run", image |-> <<>>]]
  BY DEF Init, Machine
<1>2. m \in MachineType
  <2>1. m.s \in [Requests -> Session]
    BY <1>1, IdleType
  <2>2. m.ram \in [Area -> Unit]
    BY <1>1 DEF Garbage, Unit
  <2>3. m.http \in [busy : BOOLEAN, id : Int, fresh : Int]
    BY <1>1
  <2>4. m.up \in [id : Int, of : Requests \cup {0}, size : Sizes \cup {0}, cached : BOOLEAN,
                  type : Fields, auto : BOOLEAN]
    BY <1>1 DEF Fields
  <2>5. m.board \in [flash : Seq(Entry), confirmed : Requests \cup {0}, meddled : BOOLEAN,
          end : [kind : {"run", "prompt", "boot", "reset", "crash"}, image : Seq(Unit)]]
    <3>1. [kind |-> "run", image |-> <<>>]
            \in [kind : {"run", "prompt", "boot", "reset", "crash"}, image : Seq(Unit)]
      OBVIOUS
    <3> QED
      BY <1>1, <3>1
  <2> QED
    BY <2>1, <2>2, <2>3, <2>4, <2>5 DEF Machine, MachineType
<1> HIDE DEF m
<1>3. \A r \in Requests : m.s[r] = Idle
  BY <1>1
<1>4. /\ Idle.phase = "idle" /\ Idle.pos = 0 /\ Idle.got = 0 /\ Idle.buf = <<>>
      /\ Idle.q.size = 0 /\ ~Idle.handled /\ ~Idle.uploading /\ Idle.ret = -1 /\ ~Idle.cached
  BY DEF Idle, NoPayload
<1>5. Typed(m)
  BY <1>2, <1>3, <1>4, HttpdAssumption DEF Typed, Bounded
<1>6. ~UploadStands(m)
  BY <1>1 DEF UploadStands
<1>7. Ids(m)
  <2>1. 0 \notin Requests
    BY DEF Requests
  <2> QED
    BY <1>1, <1>6, <2>1 DEF Ids
<1>8. Marked(m) /\ Alone(m) /\ Imaged(m) /\ Confirmed(m)
  <2>1. Tidy(Idle) /\ ~Large(Idle)
    BY <1>4 DEF Tidy, Large
  <2>2. Marked(m) /\ Alone(m)
    BY <1>3, <2>1 DEF Marked, Alone
  <2>3. Imaged(m)
    BY <1>1, <1>3, <1>4, <1>6, <2>1 DEF Imaged
  <2>4. Confirmed(m)
    BY <1>1, <1>3, <1>4 DEF Confirmed, Untouched
  <2> QED
    BY <2>2, <2>3, <2>4
<1>9. ActsOnConfirmed /\ stolen = FALSE
  BY DEF Init, ActsOnConfirmed
<1>10. NoneFull(m)
  BY <1>3, <1>4 DEF NoneFull
<1>11. Good(m, ~stolen)
  BY <1>5, <1>7, <1>8 DEF Good
<1> QED
  BY <1>9, <1>10, <1>11 DEF IInv, m

(* What every step but the last shows of the machine it makes.               *)
LEMMA Onwards ==
  ASSUME IInv, Running, NEW m, Good(m, ~stolen'), NEW r \in Requests, m.s[r].phase # "full",
         OwnStep(Machine, m, r), Machine' = m, stolen' \in BOOLEAN
  PROVE  IInv'
<1>1. NoneFull(m)
  BY DEF IInv, NoneFull, OwnStep
<1>2. board' = m.board /\ m.board.end.kind \in {"run", "crash"}
  BY DEF OwnStep, Running, Machine
<1>3. ActsOnConfirmed'
  BY <1>2 DEF ActsOnConfirmed
<1> QED
  BY <1>1, <1>3 DEF IInv

LEMMA ConnectStep ==
  ASSUME IInv, NEW r \in Requests, Connect(r)
  PROVE  IInv'
<1>1. PICK q \in Asked : s' = [s EXCEPT ![r] = [Idle EXCEPT !.phase = "header", !.q = q]]
  BY DEF Connect
<1> DEFINE y == [Idle EXCEPT !.phase = "header", !.q = q]
           m == Machine
           n == [m EXCEPT !.s[r] = y]
<1>2. m \in MachineType /\ m.s = s
  BY DEF IInv, Good, Typed, Machine
<1>3. y \in Session
  BY IdleType DEF Session, Phases
<1>4. /\ y.phase = "header" /\ y.pos = 0 /\ y.got = 0 /\ y.buf = <<>> /\ y.q = q
      /\ ~y.handled /\ ~y.uploading /\ ~y.cached /\ y.ret = -1
  BY DEF Idle
<1> HIDE DEF y
<1>5. q.size \in Nat
  BY AskedFacts
<1>6. Bounded(y)
  BY <1>4, <1>5, HttpdAssumption DEF Bounded
<1>7. /\ n \in MachineType /\ n.s = [s EXCEPT ![r] = y] /\ n.s[r] = y
      /\ n.ram = m.ram /\ n.http = m.http /\ n.up = m.up /\ n.board = m.board
  BY <1>2, <1>3, SetSession
<1>8. m.s[r].phase = "idle" /\ Running
  BY <1>2 DEF Connect
<1> HIDE DEF m, n
<1>a. Tidy(y) /\ ~Large(y) /\ Plain(y)
  BY <1>4 DEF Tidy, Large, Plain
<1>b. stolen' = stolen /\ stolen \in BOOLEAN /\ Good(m, ~stolen)
  BY DEF Connect, IInv, m
<1>9. Good(n, ~stolen)
  <2>1. ~Answered(m, r)
    BY <1>8 DEF Answered
  <2> DEFINE c == ~stolen
  <2>2. c \in BOOLEAN /\ Good(m, c)
    BY <1>b
  <2> HIDE DEF c
  <2>3. Good(n, c)
    BY <1>2, <1>3, <1>4, <1>6, <1>7, <1>a, <2>1, <2>2, PlainGood
  <2> QED
    BY <2>3 DEF c
<1>11. IInv'
  <2>1. \A x \in Requests \ {r} : n.s[x] = m.s[x]
    BY <1>2, <1>7 DEF MachineType
  <2>2. NoneFull(n)
    BY <1>4, <1>7, <2>1 DEF IInv, NoneFull, m
  <2>3. Machine' = n
    <3>1. /\ s' = n.s /\ ram' = n.ram /\ http' = n.http /\ up' = n.up /\ board' = n.board
          /\ n \in MachineType
      BY <1>1, <1>7 DEF Connect, Machine, m, y
    <3> QED
      BY <3>1 DEF Machine, MachineType
  <2>4. ActsOnConfirmed'
    BY <1>8 DEF Connect, Running, ActsOnConfirmed
  <2> QED
    BY <1>9, <1>b, <2>2, <2>3, <2>4 DEF IInv
<1> QED
  BY <1>11

LEMMA ReceiveStep ==
  ASSUME IInv, NEW r \in Requests, Receive(r)
  PROVE  IInv'
<1> DEFINE After(k) == IF s[r].phase = "header" THEN RecvHdr(Machine, r, k)
                       ELSE RecvPayload(Machine, r, k)
<1>1. PICK k \in SegmentSizes(r) :
        IF After(k).s[r].phase = "full"
        THEN \E ok \in Verdicts(After(k), r) : Becomes(Handled(After(k), r, ok))
        ELSE Becomes(After(k))
  BY DEF Receive
<1>2. /\ Good(Machine, ~stolen) /\ NoneFull(Machine) /\ Machine \in MachineType /\ Machine.s = s
      /\ s[r].pos \in Nat /\ s[r].q.size \in Nat /\ (~stolen) \in BOOLEAN
  BY MachineFields DEF IInv, Good, Typed, Machine
<1>3. /\ k \in Nat /\ s[r].pos + k <= Header + s[r].q.size
      /\ "splitHeader" \in Env \/ Header <= s[r].pos + k
  BY <1>2, HttpdAssumption DEF SegmentSizes, Total
<1> DEFINE m == After(k)
<1>a. ASSUME NEW d \in BOOLEAN, d => ~stolen /\ ~Takes(Machine, m)
      PROVE  Good(m, d) /\ OwnStep(Machine, m, r)
  <2>0. Good(Machine, d)
    BY <1>2, <1>a, GoodStays
  <2>1. CASE s[r].phase = "header"
    BY <1>2, <1>3, <1>a, <2>0, <2>1, RecvHdrGood
  <2>2. CASE s[r].phase # "header"
    <3>1. s[r].phase = "payload"
      BY <2>2 DEF Receive
    <3> QED
      BY <1>2, <1>3, <1>a, <2>0, <2>2, <3>1, PayloadGood
  <2> QED
    BY <2>1, <2>2
<1> HIDE DEF m
<1>4. Good(m, FALSE) /\ OwnStep(Machine, m, r)
  BY <1>a
<1>5. CASE m.s[r].phase # "full"
  <2>1. Becomes(m)
    BY <1>1, <1>5 DEF m
  <2>2. /\ stolen' \in BOOLEAN /\ (~stolen') \in BOOLEAN
        /\ ~stolen' => ~stolen /\ ~Takes(Machine, m)
    BY <2>1, BecomesStolen
  <2>3. Good(m, ~stolen')
    BY <1>a, <2>2
  <2>4. Machine' = m
    BY <1>4, <2>1, BecomesMachine DEF Good, Typed
  <2> QED
    BY <1>4, <1>5, <2>2, <2>3, <2>4, Onwards DEF Receive
<1>6. CASE m.s[r].phase = "full"
  <2>1. PICK ok \in Verdicts(m, r) : Becomes(Handled(m, r, ok))
    BY <1>1, <1>6 DEF m
  <2> DEFINE n == Handled(m, r, ok)
  <2>2. m.s[r].q = s[r].q /\ \A z \in Requests \ {r} : m.s[z].phase # "full"
    BY <1>2, <1>4 DEF OwnStep, NoneFull
  <2>3. ASSUME NEW d \in BOOLEAN, Good(m, d)
        PROVE  Good(n, d) /\ n.s[r].phase = "responding" /\ OwnStep(m, n, r)
    BY <1>6, <2>2, <2>3, HandledGood
  <2>4. Becomes(n)
    BY <2>1
  <2> HIDE DEF n
  <2>5. Good(n, FALSE) /\ n.s[r].phase = "responding" /\ OwnStep(m, n, r)
    BY <1>4, <2>3
  <2>6. OwnStep(Machine, n, r)
    BY <1>4, <2>5 DEF OwnStep
  <2>7. /\ stolen' \in BOOLEAN /\ (~stolen') \in BOOLEAN
        /\ ~stolen' => ~stolen /\ ~Takes(Machine, n)
    BY <2>4, BecomesStolen
  <2>8. Takes(Machine, m) => Takes(Machine, n)
    <3>1. ~m.s[r].uploading /\ ~n.s[r].uploading /\ ~Large(m.s[r])
      BY <1>4, <1>6, <2>5 DEF Good, Marked, Tidy, Large
    <3>2. \A z \in Requests : n.s[z].uploading <=> m.s[z].uploading
      BY <2>5, <3>1 DEF OwnStep
    <3>3. \A z \in Requests : Large(m.s[z]) => Large(n.s[z])
      BY <2>5, <3>1 DEF OwnStep
    <3> QED
      BY <3>2, <3>3 DEF Takes
  <2>9. Good(n, ~stolen')
    BY <1>a, <2>3, <2>7, <2>8
  <2>10. Machine' = n
    BY <2>4, <2>5, BecomesMachine DEF Good, Typed
  <2> QED
    BY <2>5, <2>6, <2>7, <2>9, <2>10, Onwards DEF Receive
<1> QED
  BY <1>5, <1>6

(* A session moves on by itself.                                             *)
LEMMA SessionStep ==
  ASSUME IInv, Running, NEW r \in Requests, NEW y \in Session, Bounded(y), Tidy(y),
         s' = [s EXCEPT ![r] = y], UNCHANGED <<ram, http, up, board, stolen>>,
         y.phase \in {"closing", "lost"}, y.q = s[r].q, y.cached = s[r].cached,
         y.ret = s[r].ret,
         y.handled /\ y.q.uri = "result" /\ y.phase # "lost" => Waiting(Machine, r)
  PROVE  IInv'
<1> DEFINE m == Machine
           n == [m EXCEPT !.s[r] = y]
           c == ~stolen
<1>1. Good(m, c) /\ m \in MachineType /\ m.s = s /\ c \in BOOLEAN
  BY DEF IInv, Good, Typed, Machine
<1>2. /\ n \in MachineType /\ n.s = [m.s EXCEPT ![r] = y] /\ n.s[r] = y
      /\ n.ram = m.ram /\ n.http = m.http /\ n.up = m.up /\ n.board = m.board
  BY <1>1, SetSession
<1>3. Machine' = n
  <2>1. m.ram = ram /\ m.http = http /\ m.up = up /\ m.board = board
    BY DEF Machine
  <2>2. s' = n.s /\ ram' = n.ram /\ http' = n.http /\ up' = n.up /\ board' = n.board
    BY <1>1, <1>2, <2>1
  <2> HIDE DEF n
  <2> QED
    BY <1>2, <2>2 DEF Machine, MachineType
<1>4. stolen' \in BOOLEAN /\ (~stolen') = c
  BY DEF IInv
<1>5. Waiting(m, r) \/ ~(y.handled /\ y.q.uri = "result" /\ y.phase # "lost")
  OBVIOUS
<1> HIDE DEF m, n, c
<1>6. ~Large(y)
  BY DEF Large
<1>7. c /\ Gentle => Plain(y)
  BY <1>1, <1>6 DEF Good, Imaged, Plain
<1>8. Good(n, c)
  BY <1>1, <1>2, <1>5, <1>6, <1>7, PlainGood
<1>9. OwnStep(m, n, r)
  BY <1>1, <1>2 DEF OwnStep, MachineType
<1>10. Good(n, ~stolen')
  BY <1>4, <1>8
<1> QED
  BY <1>2, <1>3, <1>4, <1>9, <1>10, Onwards DEF m

LEMMA RespondStep ==
  ASSUME IInv, NEW r \in Requests, Respond(r)
  PROVE  IInv'
<1> DEFINE m == Machine
<1>1. /\ Good(m, ~stolen) /\ m \in MachineType /\ m.s = s /\ s[r] \in Session /\ Bounded(s[r])
      /\ s[r].phase = "responding" /\ Running /\ (~stolen) \in BOOLEAN
  BY MachineFields DEF IInv, Good, Typed, Machine, Respond
<1>2. CASE s[r].q.uri = "result" /\ s[r].sent = 0
  <2>1. PICK wrote \in BOOLEAN : Becomes(Flashed(Machine, r, wrote))
    BY <1>2 DEF Respond
  <2> DEFINE n == Flashed(m, r, wrote)
             c == ~stolen'
  <2>2. stolen' \in BOOLEAN /\ c \in BOOLEAN /\ (c => ~stolen)
    BY <2>1, BecomesStolen
  <2>3. Becomes(n)
    BY <2>1
  <2> HIDE DEF m, n, c
  <2>4. Good(m, c)
    BY <1>1, <2>2, GoodStays
  <2>5. Good(n, c) /\ OwnStep(m, n, r) /\ n.s[r].phase = "responding"
    BY <1>1, <2>2, <2>4, FlashedGood DEF n
  <2>6. Machine' = n
    BY <2>3, <2>5, BecomesMachine DEF Good, Typed
  <2> QED
    BY <1>1, <2>2, <2>5, <2>6, Onwards DEF m, c
<1>3. CASE ~(s[r].q.uri = "result" /\ s[r].sent = 0)
  <2> DEFINE y == [s[r] EXCEPT !.phase = "closing"]
  <2>1. s' = [s EXCEPT ![r] = y] /\ UNCHANGED <<ram, http, up, board, stolen>>
    BY <1>3 DEF Respond
  <2>2. /\ y \in Session /\ y.phase = "closing" /\ y.cached = s[r].cached
        /\ y.q = s[r].q /\ y.pos = s[r].pos /\ y.got = s[r].got /\ y.buf = s[r].buf
        /\ y.handled = s[r].handled /\ y.uploading = s[r].uploading /\ y.ret = s[r].ret
    BY <1>1 DEF Session, Phases
  <2> HIDE DEF y
  <2>3. Bounded(y)
    BY <1>1, <2>2 DEF Bounded
  <2>4. Tidy(y)
    BY <1>1, <2>2 DEF Good, Marked, Tidy
  <2>5. y.handled /\ y.q.uri = "result" => Waiting(m, r)
    BY <1>1, <2>2 DEF Waiting
  <2> QED
    BY <1>1, <2>1, <2>2, <2>3, <2>4, <2>5, SessionStep DEF m
<1> QED
  BY <1>2, <1>3

(* A connection vanishes: its session stays behind.                          *)
LEMMA VanishStep ==
  ASSUME IInv, NEW r \in Requests, Vanish(r)
  PROVE  IInv'
<1> DEFINE m == Machine
           y == [s[r] EXCEPT !.phase = "lost"]
<1>1. /\ Good(m, ~stolen) /\ m \in MachineType /\ m.s = s /\ s[r] \in Session /\ Bounded(s[r])
      /\ s[r].phase # "idle" /\ Running
  BY MachineFields DEF IInv, Good, Typed, Machine, Vanish, Open
<1>2. s' = [s EXCEPT ![r] = y] /\ UNCHANGED <<ram, http, up, board, stolen>>
  BY DEF Vanish
<1>3. /\ y \in Session /\ y.phase = "lost" /\ y.cached = s[r].cached
      /\ y.q = s[r].q /\ y.pos = s[r].pos /\ y.got = s[r].got /\ y.buf = s[r].buf
      /\ y.handled = s[r].handled /\ y.uploading = s[r].uploading /\ y.ret = s[r].ret
  BY <1>1 DEF Session, Phases
<1> HIDE DEF y
<1>4. Bounded(y) /\ Tidy(y)
  BY <1>1, <1>3 DEF Bounded, Tidy
<1> QED
  BY <1>1, <1>2, <1>3, <1>4, SessionStep DEF m

LEMMA CloseStep ==
  ASSUME IInv, NEW r \in Requests, Close(r)
  PROVE  IInv'
<1>1. PICK auto \in BOOLEAN : Becomes(Cleanup(Machine, r, auto))
  BY DEF Close
<1> DEFINE m == Machine
           n == Cleanup(m, r, auto)
           c == ~stolen'
<1>2. /\ stolen' \in BOOLEAN /\ c \in BOOLEAN /\ (c => ~stolen) /\ (c => ~Takes(m, n))
  BY <1>1, BecomesStolen
<1>3. Good(m, ~stolen) /\ (~stolen) \in BOOLEAN /\ m.s[r].phase # "lost"
  BY DEF IInv, Close, Open, Machine
<1>4. Becomes(n)
  BY <1>1
<1> HIDE DEF m, n, c
<1>5. Good(m, c)
  BY <1>2, <1>3, GoodStays
<1>6. Good(n, c) /\ OwnStep(m, n, r) /\ n.s[r].phase = "gone"
  BY <1>2, <1>3, <1>5, CleanupGood DEF n
<1>7. Machine' = n
  BY <1>4, <1>6, BecomesMachine DEF Good, Typed
<1> QED
  BY <1>2, <1>6, <1>7, Onwards DEF Close, m, c

(* Every connection is torn down.  Which /result decides does not matter      *)
(* here: the failsafe is left for an upload that was confirmed.              *)
LEMMA AllClosedFields ==
  ASSUME NEW m \in MachineType, m.s = s, NEW auto \in BOOLEAN
  PROVE  LET n == AllClosed(m, auto)
         IN  /\ n \in MachineType
             /\ \A x \in Requests : n.s[x] = IF x \in Open THEN Freed(m.s[x]) ELSE m.s[x]
             /\ n.http.id = m.http.id /\ n.http.fresh = m.http.fresh
             /\ n.http.busy <=> m.http.busy /\ \A x \in Open : ~m.s[x].uploading
             /\ n.up.id = m.up.id /\ n.up.of = m.up.of /\ n.up.size = m.up.size
             /\ n.up.cached = m.up.cached /\ n.up.type = m.up.type
             /\ (\A x \in Open : ~Waiting(m, x)) => (n.up.auto <=> m.up.auto)
             /\ n.ram = m.ram /\ n.board = m.board
<1> DEFINE results == {x \in Open : m.s[x].handled /\ m.s[x].q.uri = "result"}
           last == CHOOSE x \in results : \A o \in results : o <= x
           m1 == IF results = {} THEN m ELSE ResultClosed(m, last, auto)
           quiet == m1.http.busy /\ \A x \in Open : ~m.s[x].uploading
           shut == [x \in Requests |-> IF x \in Open THEN Freed(m1.s[x]) ELSE m1.s[x]]
           n == [m1 EXCEPT !.http.busy = quiet, !.s = shut]
<1>1. /\ m1 \in MachineType /\ m1.s = m.s /\ m1.ram = m.ram /\ m1.http = m.http
      /\ m1.board = m.board
      /\ m1.up.id = m.up.id /\ m1.up.of = m.up.of /\ m1.up.size = m.up.size
      /\ m1.up.cached = m.up.cached /\ m1.up.type = m.up.type
      /\ results = {} => (m1.up.auto <=> m.up.auto)
  <2> HIDE DEF last, results
  <2>1. CASE results = {}
    BY <2>1
  <2>2. CASE results # {}
    <3> DEFINE asks == m.s[last].ret = 0 /\ (m.up.type = "initramfs" \/ auto)
    <3>1. m1 = [m EXCEPT !.up.auto = asks]
      BY <2>2 DEF ResultClosed
    <3>2. asks \in BOOLEAN
      OBVIOUS
    <3> HIDE DEF asks, m1
    <3> QED
      BY <2>2, <3>1, <3>2 DEF MachineType
  <2> QED
    BY <2>1, <2>2
<1>2. AllClosed(m, auto) = n
  BY DEF AllClosed
<1>3. (\A x \in Open : ~Waiting(m, x)) => results = {}
  BY DEF Waiting, Open
<1> HIDE DEF results, m1
<1>4. shut \in [Requests -> Session]
  <2>1. \A x \in Requests : m1.s[x] \in Session
    BY <1>1 DEF MachineType
  <2> QED
    BY <2>1, FreedType
<1>5. quiet \in BOOLEAN
  OBVIOUS
<1>6. /\ \A x \in Requests : shut[x] = IF x \in Open THEN Freed(m.s[x]) ELSE m.s[x]
      /\ quiet <=> m.http.busy /\ \A x \in Open : ~m.s[x].uploading
  BY <1>1
<1> HIDE DEF shut, quiet
<1>7. /\ n \in MachineType /\ n.s = shut /\ n.up = m1.up /\ n.ram = m1.ram /\ n.board = m1.board
      /\ n.http = [m1.http EXCEPT !.busy = quiet]
  BY <1>1, <1>4, <1>5 DEF MachineType
<1>8. n.http.id = m.http.id /\ n.http.fresh = m.http.fresh /\ (n.http.busy <=> quiet)
  BY <1>1, <1>5, <1>7 DEF MachineType
<1> QED
  BY <1>1, <1>2, <1>3, <1>6, <1>7, <1>8

LEMMA LeaveStep ==
  ASSUME IInv, Leave
  PROVE  IInv'
<1> DEFINE m == Machine
           Shut(auto) == AllClosed(m, auto)
           End(k) == CASE ~k.up.auto              -> [kind |-> "prompt", image |-> <<>>]
                       [] k.up.type = "initramfs" -> [kind |-> "boot", image |-> ImageAt(k)]
                       [] OTHER                   -> [kind |-> "reset", image |-> <<>>]
<1>1. PICK auto \in BOOLEAN : Becomes([Shut(auto) EXCEPT !.board.end = End(Shut(auto))])
  BY DEF Leave
<1> DEFINE k == Shut(auto)
           n == [k EXCEPT !.board.end = End(k)]
<1>a. Becomes(n)
  BY <1>1
<1> DEFINE c == ~stolen'
<1>b. stolen' \in BOOLEAN /\ c \in BOOLEAN /\ (c => ~stolen)
  <2> HIDE DEF n
  <2> QED
    BY <1>a, BecomesStolen
<1>c. Good(m, ~stolen) /\ (~stolen) \in BOOLEAN
  BY DEF IInv
<1> HIDE DEF c
<1>d. Good(m, c)
  <2> HIDE DEF m
  <2> QED
    BY <1>b, <1>c, GoodStays
<1>2. /\ Typed(m) /\ Ids(m) /\ m \in MachineType /\ NoneFull(m)
      /\ m.s = s /\ m.up = up /\ m.board = board
  BY <1>d DEF IInv, Good, Typed, Machine
<1>3. m.up.auto
  BY <1>2 DEF Leave
<1> HIDE DEF m
<1>4. /\ k \in MachineType
      /\ \A x \in Requests : k.s[x] = IF x \in Open THEN Freed(m.s[x]) ELSE m.s[x]
      /\ k.http.id = m.http.id /\ k.http.fresh = m.http.fresh
      /\ k.http.busy <=> m.http.busy /\ \A x \in Open : ~m.s[x].uploading
      /\ k.up.id = m.up.id /\ k.up.of = m.up.of /\ k.up.size = m.up.size
      /\ k.up.cached = m.up.cached /\ k.up.type = m.up.type
      /\ (\A x \in Open : ~Waiting(m, x)) => (k.up.auto <=> m.up.auto)
      /\ k.ram = m.ram /\ k.board = m.board
  BY <1>2, AllClosedFields
<1> HIDE DEF Shut
<1>5. \A x \in Requests :
        LET y == k.s[x]
        IN  /\ Bounded(y) /\ Tidy(y) /\ y.q = m.s[x].q /\ y.phase \in {"idle", "gone", "lost"}
            /\ ~Large(y) /\ ~(y.handled /\ y.phase # "lost")
            /\ y = m.s[x] \/ (y.phase = "gone" /\ ~y.cached /\ y.ret = -1)
            /\ Answered(m, x) => Answered(k, x)
  <2> TAKE x \in Requests
  <2>1. CASE x \in Open
    <3>1. /\ Bounded(Freed(m.s[x])) /\ Freed(m.s[x]).q = m.s[x].q /\ Freed(m.s[x]).phase = "gone"
          /\ ~Freed(m.s[x]).uploading /\ ~Freed(m.s[x]).handled /\ Freed(m.s[x]).ret = -1
          /\ ~Freed(m.s[x]).cached
      BY <1>2, MachineFields, FreedType
    <3> QED
      BY <1>4, <2>1, <3>1 DEF Answered, Tidy, Large
  <2>2. CASE x \notin Open
    <3>1. m.s[x].phase \in {"idle", "gone", "lost"} /\ Bounded(m.s[x]) /\ Tidy(m.s[x])
      BY <1>2, <1>d, <2>2 DEF Open, Typed, Good, Marked
    <3>2. ~(m.s[x].handled /\ m.s[x].phase # "lost") /\ ~Large(m.s[x])
      BY <3>1 DEF Bounded, Large
    <3>3. k.s[x] = m.s[x]
      BY <1>4, <2>2
    <3> QED
      BY <3>1, <3>2, <3>3 DEF Answered
  <2> QED
    BY <2>1, <2>2
<1>6. Typed(k)
  BY <1>4, <1>5 DEF Typed
<1>7. Ids(k) /\ (UploadStands(k) => UploadStands(m))
  BY <1>2, <1>4, <1>5, IdsFrame
<1>8. End(k) \in [kind : {"run", "prompt", "boot", "reset", "crash"}, image : Seq(Unit)]
  <2>1. ImageAt(k) \in Seq(Unit)
    BY <1>6, <1>7, ImageType DEF Ids
  <2>2. <<>> \in Seq(Unit)
    OBVIOUS
  <2> HIDE DEF k
  <2> QED
    BY <2>1, <2>2
<1>9. /\ n \in MachineType /\ n.s = k.s /\ n.ram = k.ram /\ n.http = k.http /\ n.up = k.up
      /\ n.board.flash = m.board.flash /\ n.board.confirmed = m.board.confirmed
      /\ n.board.meddled = m.board.meddled /\ n.board.end = End(k)
  <2> HIDE DEF End, k
  <2> QED
    BY <1>4, <1>8 DEF MachineType
<1>10. Machine' = n
  BY <1>9, <1>a, BecomesMachine
<1> HIDE DEF n, k, End
<1>11. Typed(n)
  BY <1>5, <1>9 DEF Typed
<1>12. Ids(n)
  BY <1>4, <1>7, <1>9 DEF Ids, UploadStands, Answered
<1>13. \A x \in Requests : ~Large(n.s[x])
  BY <1>5, <1>9
<1>14. Marked(n) /\ Alone(n)
  <2>1. Marked(n)
    BY <1>5, <1>9 DEF Marked
  <2> QED
    BY <1>13, <2>1 DEF Alone
<1>15. SameImage(m, n)
  BY <1>4, <1>5, <1>7, <1>9 DEF SameImage, UploadStands
<1>16. c /\ Gentle => Imaged(n)
  <2>1. \A x \in Requests : n.s[x] = m.s[x] \/ Plain(n.s[x])
    BY <1>5, <1>9 DEF Plain
  <2> QED
    BY <1>2, <1>9, <1>15, <1>d, <2>1, ImagedFrame DEF Good
<1>17. c /\ Gentle => n.board.confirmed # 0
  BY <1>2, <1>3, <1>9, <1>d DEF Good, Confirmed
<1>18. Untouched(n) <=> Untouched(m)
  BY <1>9 DEF Untouched
<1>19. c /\ Gentle /\ Untouched(n) => Holds(n) /\ n.up.of = n.board.confirmed
  BY <1>2, <1>9, <1>15, <1>18, <1>d, HoldsFrame DEF Good, Confirmed, SameImage
<1>20. c /\ Gentle => Confirmed(n)
  <2>1. \A x \in Requests : ~Waiting(n, x)
    BY <1>5, <1>9 DEF Waiting
  <2> QED
    BY <1>13, <1>17, <1>19, <2>1 DEF Confirmed
<1>21. NoneFull(n)
  BY <1>5, <1>9 DEF NoneFull
<1>22. c /\ Gentle /\ Untouched(n) => k.up.auto
  <2>1. c /\ Gentle /\ Untouched(m) => \A x \in Requests : ~Waiting(m, x)
    BY <1>3, <1>d DEF Good, Confirmed
  <2> QED
    BY <1>3, <1>4, <1>18, <2>1 DEF Open
<1>23. Gentle => ActsOnConfirmed'
  <2> SUFFICES ASSUME Gentle, c, ~board'.meddled PROVE
        /\ board'.confirmed # 0
        /\ IF s'[board'.confirmed].q.field = "initramfs"
           THEN board'.end = [kind |-> "boot", image |-> Payload(board.confirmed)']
           ELSE board'.end.kind = "reset"
    BY DEF ActsOnConfirmed, c
  <2>1. s' = n.s /\ board' = n.board
    BY <1>10 DEF Machine
  <2>2. Untouched(n) /\ k.up.auto
    BY <1>17, <1>22, <2>1 DEF Untouched
  <2>3. /\ k.up.of = n.board.confirmed /\ k.up.of \in Requests
        /\ k.up.type = n.s[k.up.of].q.field
    BY <1>9, <1>19, <2>2 DEF Holds
  <2>4. ImageAt(k) = Payload(board.confirmed)'
    <3>1. Holds(k)
      BY <1>9, <1>19, <2>2 DEF Holds, Whole
    <3>2. ImageAt(k) = Image(k.up.of, k.up.size)
      BY <1>6, <3>1, ImageType DEF Holds
    <3>3. k.up.size = s'[k.up.of].q.size
      BY <1>7, <1>9, <2>1, <2>3 DEF Ids
    <3> QED
      BY <2>1, <2>3, <3>2, <3>3 DEF Image, Payload
  <2>5. board'.end = IF k.up.type = "initramfs" THEN [kind |-> "boot", image |-> ImageAt(k)]
                     ELSE [kind |-> "reset", image |-> <<>>]
    BY <1>9, <2>1, <2>2 DEF End
  <2> QED
    BY <1>17, <2>1, <2>3, <2>4, <2>5
<1> QED
  <2>1. Good(n, c)
    BY <1>11, <1>12, <1>14, <1>16, <1>20 DEF Good
  <2>2. Good(Machine, ~stolen)'
    BY <1>10, <2>1 DEF c
  <2>3. NoneFull(Machine)'
    BY <1>10, <1>21
  <2> QED
    BY <1>23, <1>b, <2>2, <2>3 DEF IInv

LEMMA Inductive == IInv /\ [Next]_vars => IInv'
<1> SUFFICES ASSUME IInv, [Next]_vars PROVE IInv'
  OBVIOUS
<1>1. CASE UNCHANGED vars
  <2>1. Machine' = Machine /\ (ActsOnConfirmed' <=> ActsOnConfirmed) /\ stolen' = stolen
    BY <1>1 DEF vars, Machine, ActsOnConfirmed, Payload
  <2> QED
    BY <2>1 DEF IInv
<1>2. ASSUME NEW r \in Requests, Connect(r) PROVE IInv'
  BY <1>2, ConnectStep
<1>3. ASSUME NEW r \in Requests, Receive(r) PROVE IInv'
  BY <1>3, ReceiveStep
<1>4. ASSUME NEW r \in Requests, Respond(r) PROVE IInv'
  BY <1>4, RespondStep
<1>5. ASSUME NEW r \in Requests, Close(r) PROVE IInv'
  BY <1>5, CloseStep
<1>6. ASSUME NEW r \in Requests, Vanish(r) PROVE IInv'
  BY <1>6, VanishStep
<1>7. CASE Leave
  BY <1>7, LeaveStep
<1> QED
  BY <1>1, <1>2, <1>3, <1>4, <1>5, <1>6, <1>7 DEF Next

(* However the clients behave, the invariant of the upload machine holds.    *)
THEOREM Invariance == Spec => []IInv
<1>1. Init => IInv
  BY InitGood
<1>2. IInv /\ [Next]_vars => IInv'
  BY Inductive
<1> QED
  BY <1>1, <1>2, PTL DEF Spec

----------------------------------------------------------------------------
(* The properties *)

(* What the globals and the sessions of mtk_httpd.c and upgrade.c can hold:  *)
(* a session never counts more than its request has, its buffer never holds  *)
(* more than was counted, an identifier in use was given out before, and no  *)
(* request is left complete but not handed to its handler.                   *)
THEOREM HttpdTypeCorrect == Spec => []TypeOK
<1>1. IInv => TypeOK
  <2> SUFFICES ASSUME IInv PROVE TypeOK
    OBVIOUS
  <2>1. /\ Typed(Machine) /\ Ids(Machine) /\ NoneFull(Machine) /\ Machine \in MachineType
        /\ Machine.s = s /\ Machine.ram = ram /\ Machine.http = http /\ Machine.up = up
        /\ Machine.board = board
    BY DEF IInv, Good, Typed, Machine
  <2>2. s \in [Requests -> Session] /\ ram \in [Area -> Unit]
    BY <2>1 DEF MachineType
  <2>3. \A r \in Requests :
          /\ s[r].phase \in {"idle", "header", "payload", "responding", "closing", "gone", "lost"}
          /\ s[r].pos \in 0 .. Total(r) /\ s[r].got \in 0 .. s[r].q.size
          /\ {s[r].cached, s[r].uploading, s[r].handled} \subseteq BOOLEAN
          /\ Len(s[r].buf) <= s[r].got /\ s[r].sent \in 0 .. 1 /\ s[r].ret \in {-1, 0}
    <3> TAKE r \in Requests
    <3>1. s[r] \in Session /\ Bounded(s[r]) /\ s[r].phase # "full" /\ s[r].q.size \in Nat
      BY <2>1, MachineFields DEF Typed, NoneFull
    <3>2. s[r].pos \in 0 .. Total(r) /\ s[r].got \in 0 .. s[r].q.size
      BY <3>1, HttpdAssumption DEF Session, Bounded, Total
    <3> QED
      BY <3>1, <3>2 DEF Session, Phases, Bounded
  <2>4. http.busy \in BOOLEAN /\ {http.id, up.id} \subseteq -1 .. http.fresh - 1
    BY <2>1 DEF MachineType, Ids
  <2>5. up.of \in Requests \cup {0} /\ up.type \in Fields /\ up.auto \in BOOLEAN
    BY <2>1 DEF MachineType
  <2>6. /\ board.confirmed \in Requests \cup {0} /\ board.meddled \in BOOLEAN
        /\ board.end.kind \in {"run", "prompt", "boot", "reset", "crash"}
        /\ stolen \in BOOLEAN
    BY <2>1 DEF MachineType, IInv
  <2> QED
    BY <2>2, <2>3, <2>4, <2>5, <2>6 DEF TypeOK
<1> QED
  BY <1>1, Invariance, PTL

(* Whatever the clients send, is_uploading in mtk_httpd.c lets one           *)
(* connection at a time write the upload area, until the end of a small body *)
(* takes the mark away from a large one.                                     *)
THEOREM OneWriterAtATime == Spec => []OneWriter
<1>1. IInv => OneWriter
  <2> SUFFICES ASSUME IInv, ~stolen PROVE OneWriter
    BY DEF OneWriter
  <2>1. Alone(Machine) /\ Machine.s = s
    BY DEF IInv, Good, Machine
  <2> QED
    BY <2>1 DEF Alone, OneWriter
<1> QED
  BY <1>1, Invariance, PTL

(* Whatever the clients send, /result writes the data of an upload at most   *)
(* once: upgrade.c gives up the upload identifier with the first write.      *)
THEOREM WrittenAtMostOnce == Spec => []WrittenOnce
<1>1. IInv => WrittenOnce
  BY DEF IInv, Good, Ids, Machine, WrittenOnce
<1> QED
  BY <1>1, Invariance, PTL

(* With clients that send whole headers and images too large for the buffer  *)
(* of a session, what result_handler writes is the image upload_handler      *)
(* accepted last, unharmed by whatever else arrived in the upload area, with *)
(* the same exception.                                                       *)
THEOREM FlashesWhatWasUploaded ==
  ASSUME Env \subseteq {"splitPost"}
  PROVE  Spec => []FlashedIsUploaded
<1>1. IInv => FlashedIsUploaded
  <2> SUFFICES ASSUME IInv, ~stolen, NEW i \in DOMAIN board.flash
               PROVE  LET w == board.flash[i]
                      IN  /\ w.of # 0 /\ w.image = Payload(w.of)
                          /\ w.type = s[w.of].q.field /\ s[w.of].q.valid
    BY DEF FlashedIsUploaded
  <2>1. /\ Imaged(Machine) /\ Machine \in MachineType
        /\ Machine.s = s /\ Machine.board = board
    BY DEF IInv, Good, Gentle, Typed, Machine
  <2>2. board.flash[i] \in Entry
    BY <2>1 DEF MachineType
  <2>3. Intact(Machine, board.flash[i])
    BY <2>1 DEF Imaged
  <2>4. board.flash[i].of # 0
    BY <2>2 DEF Entry, Requests
  <2> QED
    BY <2>1, <2>3, <2>4 DEF Intact, Image, Payload
<1> QED
  BY <1>1, Invariance, PTL

(* With the same clients, a failsafe that leaves its loop for a confirmed    *)
(* upload does what was confirmed: do_httpd boots the image that was         *)
(* uploaded, or resets once it was flashed, with the same exception.         *)
THEOREM DoesWhatWasConfirmed ==
  ASSUME Env \subseteq {"splitPost"}
  PROVE  Spec => []ActsOnConfirmed
<1>1. IInv => ActsOnConfirmed
  BY DEF IInv, Gentle
<1> QED
  BY <1>1, Invariance, PTL

===============================================================================
