----------------------------- MODULE HttpdUpload -----------------------------
(***************************************************************************)
(* Uploading and flashing over the web failsafe: the HTTP sessions of      *)
(* net/mtk_httpd.c, the upload and result handlers of                      *)
(* failsafe/modules/upgrade.c, and what do_httpd does when the poll loop   *)
(* ends.                                                                   *)
(*                                                                         *)
(* A request comes on a connection of its own and is named by it.  It is   *)
(* Header units, then its payload, delivered in segments of any length; a  *)
(* unit of payload is <<request, index>>, so that memory shows whose bytes *)
(* it holds.  A payload that fits the session's own buffer stays there;    *)
(* any other goes to the one upload area, ram.                             *)
(*                                                                         *)
(* A handler of the code is an operator on the machine m.                  *)
(***************************************************************************)
EXTENDS Integers, Sequences, FiniteSets

CONSTANTS
  NumRequests,  \* connections opened at most
  Header,       \* units of a request header
  Cache,        \* units of pdata->buf
  Sizes,        \* payload sizes of the uploads
  Env           \* what clients may do besides sending whole headers and large images:
                \*   "splitHeader" a header comes in several segments
                \*   "splitPost"   a small body comes apart from its header
                \*   "smallImage"  an image is small enough for the session's buffer

ASSUME HttpdAssumption ==
  /\ NumRequests \in Nat
  /\ Header \in Nat \ {0} /\ Cache \in Nat /\ Header + 1 < Cache
  /\ Sizes \subseteq Nat \ {0} /\ \E n \in Sizes : \A k \in Sizes : k <= n
  /\ Env \subseteq {"splitHeader", "splitPost", "smallImage"}

VARIABLES
  s,      \* the sessions
  ram,    \* the upload area
  http,   \* globals of mtk_httpd.c: is_uploading, upload_id, what rand() gives next
  up,     \* globals of upgrade.c: upload_data_id, upload_data and its size, fw_type,
          \* auto_action_pending
  board,  \* what was flashed, how the failsafe ended, and for the properties: whose
          \* image was confirmed last, and whether another request meddled since
  stolen  \* history, for the properties: a small body that had come apart ended, or was
          \* given up, while a large one was coming in, and took the upload mark with it

vars == <<s, ram, http, up, board, stolen>>

Requests == 1 .. NumRequests
Fits(n) == Header + n < Cache
Garbage == <<0, 0>>
Area == 1 .. CHOOSE n \in Sizes : \A k \in Sizes : k <= n

Fields == {"firmware", "initramfs"}
NoPayload == [uri |-> "result", size |-> 0, field |-> "", valid |-> TRUE]
Asked ==
  {NoPayload}
  \cup [uri : {"upload"}, size : {n \in Sizes : Fits(n) => "smallImage" \in Env},
        field : {"firmware"}, valid : BOOLEAN]
  \cup [uri : {"upload"}, size : {n \in Sizes : Fits(n) => "smallImage" \in Env},
        field : {"initramfs"}, valid : {TRUE}]
  \cup [uri : {"other"}, size : Sizes, field : {""}, valid : {TRUE}]

Idle == [phase |-> "idle", q |-> NoPayload, pos |-> 0, got |-> 0, cached |-> FALSE,
         uploading |-> FALSE, buf |-> <<>>, handled |-> FALSE, sent |-> 0, ret |-> -1]

Total(r) == Header + s[r].q.size
Payload(r) == [i \in 1 .. s[r].q.size |-> <<r, i>>]
Open == {r \in Requests : s[r].phase \notin {"idle", "gone", "lost"}}
Running == board.end.kind = "run"

Machine == [s |-> s, ram |-> ram, http |-> http, up |-> up, board |-> board]

Large(x) == x.phase = "payload" /\ ~x.cached
Unmarks(m) ==
  \E small, large \in Requests :
    s[small].uploading /\ s[small].cached /\ ~m.s[small].uploading /\ Large(m.s[large])

Becomes(m) ==
  /\ s' = m.s /\ ram' = m.ram /\ http' = m.http /\ up' = m.up /\ board' = m.board
  /\ stolen' = (stolen \/ Unmarks(m))

----------------------------------------------------------------------------
(* Receiving a request: mtk_httpd.c                                        *)

\* The payload units between stream positions from and to of request r
Units(r, from, to) == [i \in 1 .. to - from |-> <<r, from - Header + i>>]

\* memcpy of units to the upload area, after the first off
Stored(area, off, units) ==
  [i \in DOMAIN area |-> IF i - off \in DOMAIN units THEN units[i - off] ELSE area[i]]

\* A payload is complete
FullyReceived(m, r) ==
  [m EXCEPT !.s[r].phase = "full", !.s[r].uploading = FALSE, !.http.busy = FALSE]

\* The end of httpd_recv_hdr: everything came with the header, or more follows
PayloadBegun(m, r) ==
  IF m.s[r].got = m.s[r].q.size
  THEN [m EXCEPT !.s[r].phase = "full"]
  ELSE [m EXCEPT !.s[r].phase = "payload", !.s[r].uploading = TRUE, !.http.busy = TRUE]

Freed(x) == [Idle EXCEPT !.phase = "gone", !.q = x.q]

\* Mutant: the upload mark outlives its connection
MarkOutlives(m, r) == [m EXCEPT !.s[r] = Freed(@)]
\* httpd_cleanup, of a session that was not yet handed to a handler
Dropped(m, r) ==
  [m EXCEPT !.http.busy = @ /\ ~m.s[r].uploading,
            !.s[r] = Freed(@)]

\* Mutant: a large payload is taken while another is being received
AreaAlways(m) == TRUE
MayUseArea(m) == ~m.http.busy

\* Mutant: the upload identifier is kept
IdKept(h) == h
NewUploadId(h) == [h EXCEPT !.id = h.fresh, !.fresh = @ + 1]

Meddle(m, r) == [m EXCEPT !.board.meddled = @ \/ m.board.confirmed # 0]

\* A large payload: only the last segment is copied, from behind as many bytes as the
\* whole header has.  A segment shorter than that makes the u32 size wrap, and memcpy
\* runs over all of memory.
AreaBegun(m, r, n) ==
  IF n < Header
  THEN [m EXCEPT !.board.end.kind = "crash"]
  ELSE LET begun == [m EXCEPT !.http = NewUploadId(@), !.s[r].got = n - Header,
             !.ram = Stored(@, 0, Units(r, m.s[r].pos + Header, m.s[r].pos + n))]
       IN  PayloadBegun(Meddle(begun, r), r)

RecvHdr(m, r, n) ==
  LET pos == m.s[r].pos + n
      q   == m.s[r].q
      at  == [m EXCEPT !.s[r].pos = pos]
  IN  IF pos < Header THEN at
      ELSE IF q.uri = "result" THEN [at EXCEPT !.s[r].phase = "full"]
      ELSE IF Fits(q.size)
      THEN PayloadBegun([at EXCEPT !.s[r].cached = TRUE, !.s[r].got = pos - Header,
                                   !.s[r].buf = Units(r, Header, pos)], r)
      ELSE IF ~MayUseArea(m) THEN Dropped(m, r)
      ELSE [AreaBegun(m, r, n) EXCEPT !.s[r].pos = pos]

RecvPayload(m, r, n) ==
  LET x     == m.s[r]
      left  == x.q.size - x.got
      size  == IF n < left THEN n ELSE left
      units == Units(r, x.pos, x.pos + size)
      m1    == [m EXCEPT !.s[r] = [x EXCEPT !.pos = @ + n, !.got = @ + size,
                                            !.buf = IF x.cached THEN @ \o units ELSE @],
                         !.ram = IF x.cached THEN @ ELSE Stored(@, x.got, units)]
  IN  IF m1.s[r].got = x.q.size THEN FullyReceived(m1, r) ELSE m1

----------------------------------------------------------------------------
(* The handlers: upgrade.c                                                 *)

\* What memory holds at upload_data
ImageAt(m) ==
  IF m.up.cached
  THEN [i \in 1 .. m.up.size |->
          IF i \in DOMAIN m.s[m.up.of].buf THEN m.s[m.up.of].buf[i] ELSE Garbage]
  ELSE SubSeq(m.ram, 1, m.up.size)

\* upload_handler; intact images are as valid as their files, of others nothing is known
Uploaded(m, r, ok) ==
  LET q     == m.s[r].q
      typed == [Meddle(m, r) EXCEPT !.up.type = q.field]
  IN  IF ~ok THEN typed
      ELSE [typed EXCEPT !.up = [@ EXCEPT !.id = m.http.id, !.of = r, !.size = q.size,
                                          !.cached = m.s[r].cached]]

\* Verdicts failsafe_validate_image may reach
Verdicts(m, r) ==
  LET whole == IF m.s[r].cached THEN m.s[r].buf ELSE SubSeq(m.ram, 1, m.s[r].q.size)
  IN  IF m.s[r].q.field = "initramfs" THEN {TRUE}
      ELSE IF whole = Payload(r) THEN {m.s[r].q.valid} ELSE BOOLEAN

\* httpd_handle_request: the response header is made in the session's buffer
Handled(m, r, ok) ==
  LET x  == m.s[r]
      m1 == CASE x.q.uri = "upload" -> Uploaded(m, r, ok)
              [] x.q.uri = "result" -> Meddle(m, r)
              [] OTHER              -> m
  IN  [m1 EXCEPT !.s[r] = [x EXCEPT !.phase = "responding", !.handled = TRUE,
                             !.buf = IF x.q.uri = "result" THEN @
                                     ELSE [i \in DOMAIN @ |-> Garbage]]]

\* Mutant: the identifier stays valid after the write
IdStaysValid(m) == m
Invalidated(m) == [m EXCEPT !.up.id = m.http.fresh, !.http.fresh = @ + 1]

UploadStands(m) == m.up.id = m.http.id

\* result_handler, HTTP_CB_RESPONDING; wrote: what failsafe_write_image returned
Flashed(m, r, wrote) ==
  LET boots == m.up.type = "initramfs"
      ok    == UploadStands(m) /\ (boots \/ wrote)
      entry == [of |-> m.up.of, type |-> m.up.type, image |-> ImageAt(m)]
      m1    == IF UploadStands(m) /\ ~boots
               THEN [m EXCEPT !.board.flash = Append(@, entry)] ELSE m
      m2    == IF ok
               THEN [m1 EXCEPT !.board.confirmed = m.up.of, !.s[r].ret = 0,
                       !.board.meddled =
                         m.up.auto \/ \E o \in Open \ {r} : m.s[o].q.uri = "result"]
               ELSE m1
  IN  [Invalidated(m2) EXCEPT !.s[r].sent = 1]

\* Mutant: the outcome of the write is not asked for
ResultClosedUnasked(m, r, auto) == [m EXCEPT !.up.auto = m.up.type = "initramfs" \/ auto]
\* Mutant: an initramfs, too, is acted on only where an automatic reboot is configured
ResultClosedAsked(m, r, auto) == [m EXCEPT !.up.auto = m.s[r].ret = 0 /\ auto]
\* result_handler, HTTP_CB_CLOSED; auto: failsafe_auto_reboot_enabled
ResultClosed(m, r, auto) ==
  [m EXCEPT !.up.auto = m.s[r].ret = 0 /\ (m.up.type = "initramfs" \/ auto)]

\* httpd_cleanup
Cleanup(m, r, auto) ==
  Dropped(IF m.s[r].handled /\ m.s[r].q.uri = "result" THEN ResultClosed(m, r, auto) ELSE m, r)

----------------------------------------------------------------------------

Init ==
  /\ s = [r \in Requests |-> Idle]
  /\ ram = [i \in Area |-> Garbage]
  /\ http = [busy |-> FALSE, id |-> -1, fresh |-> 1]
  /\ up = [id |-> 0, of |-> 0, size |-> 0, cached |-> FALSE, type |-> "firmware", auto |-> FALSE]
  /\ board = [flash |-> <<>>, confirmed |-> 0, meddled |-> FALSE,
              end |-> [kind |-> "run", image |-> <<>>]]
  /\ stolen = FALSE

\* A client connects; connections are taken in order
Connect(r) ==
  /\ Running /\ s[r].phase = "idle" /\ \A o \in Requests : o < r => s[o].phase # "idle"
  /\ \E q \in Asked : s' = [s EXCEPT ![r] = [Idle EXCEPT !.phase = "header", !.q = q]]
  /\ UNCHANGED <<ram, http, up, board, stolen>>

\* Lengths the next segment of r may have
SegmentSizes(r) ==
  {n \in 1 .. Total(r) - s[r].pos :
     /\ "splitHeader" \in Env \/ s[r].pos + n >= Header
     /\ "splitPost" \in Env \/ ~Fits(s[r].q.size) \/ s[r].pos + n = Total(r)}

\* httpd_rx
Receive(r) ==
  /\ Running /\ s[r].phase \in {"header", "payload"}
  /\ \E n \in SegmentSizes(r) :
       LET m == IF s[r].phase = "header" THEN RecvHdr(Machine, r, n) ELSE RecvPayload(Machine, r, n)
       IN  IF m.s[r].phase = "full"
           THEN \E ok \in Verdicts(m, r) : Becomes(Handled(m, r, ok))
           ELSE Becomes(m)

\* httpd_tx: the client has acknowledged what was sent.  The body of a plain response
\* touches nothing shared and is taken together with the close that follows it.
Respond(r) ==
  /\ Running /\ s[r].phase = "responding"
  /\ IF s[r].q.uri = "result" /\ s[r].sent = 0
     THEN \E wrote \in BOOLEAN : Becomes(Flashed(Machine, r, wrote))
     ELSE s' = [s EXCEPT ![r].phase = "closing"] /\ UNCHANGED <<ram, http, up, board, stolen>>

\* The connection ends: closed after the response, or by the client at any time
Close(r) ==
  /\ Running /\ r \in Open
  /\ \E auto \in BOOLEAN : Becomes(Cleanup(Machine, r, auto))

\* A session whose end would be missed: by the upload mark, by upload_data, by /result
Missed(x) == x.uploading \/ (x.handled /\ x.q.uri # "other")

\* The stack removes the connection without a callback: its client connects again from
\* the same port, or the last acknowledgement does not come in time (mtk_tcp.c).  The
\* server hears nothing of it: the session's data, and its mark, stay as they are.  Of a
\* session that holds nothing it leaves what Close leaves.
Vanish(r) ==
  /\ Running /\ r \in Open /\ Missed(s[r])
  /\ s' = [s EXCEPT ![r].phase = "lost"]
  /\ UNCHANGED <<ram, http, up, board, stolen>>

\* mtk_tcp_close_all_conn tears the connections down oldest first; of the flags only
\* auto_action_pending depends on the order, and the last /result decides it
AllClosed(m, auto) ==
  LET results == {r \in Open : m.s[r].handled /\ m.s[r].q.uri = "result"}
      m1 == IF results = {} THEN m
            ELSE ResultClosed(m, CHOOSE r \in results : \A o \in results : o <= r, auto)
  IN  [m1 EXCEPT
         !.http.busy = @ /\ \A r \in Open : ~m.s[r].uploading,
         !.s = [r \in Requests |-> IF r \in Open THEN Freed(@[r]) ELSE @[r]]]

\* The poll loop sees auto_action_pending, start_web_failsafe ends, do_httpd acts
Leave ==
  /\ Running /\ up.auto
  /\ \E auto \in BOOLEAN :
       LET m == AllClosed(Machine, auto)
       IN  Becomes([m EXCEPT !.board.end =
             CASE ~m.up.auto                -> [kind |-> "prompt", image |-> <<>>]
               [] m.up.type = "initramfs"   -> [kind |-> "boot", image |-> ImageAt(m)]
               [] OTHER                     -> [kind |-> "reset", image |-> <<>>]])

Next ==
  \/ \E r \in Requests : Connect(r) \/ Receive(r) \/ Respond(r) \/ Close(r) \/ Vanish(r)
  \/ Leave

\* No session stands still for ever: a client that stays sends on and takes the response, one
\* that leaves is closed by the stack, and so is what the server has closed, unless the
\* connection vanishes first
Served(r) == Close(r) \/ Respond(r) \/ Receive(r)

Spec == Init /\ [][Next]_vars /\ (\A r \in Requests : WF_<<s[r]>>(Served(r))) /\ WF_vars(Leave)

----------------------------------------------------------------------------

TypeOK ==
  /\ DOMAIN s = Requests
  /\ \A r \in Requests :
       /\ s[r].phase \in {"idle", "header", "payload", "responding", "closing", "gone", "lost"}
       /\ s[r].pos \in 0 .. Total(r) /\ s[r].got \in 0 .. s[r].q.size
       /\ {s[r].cached, s[r].uploading, s[r].handled} \subseteq BOOLEAN
       /\ Len(s[r].buf) <= s[r].got /\ s[r].sent \in 0 .. 1 /\ s[r].ret \in {-1, 0}
  /\ DOMAIN ram = Area
  /\ http.busy \in BOOLEAN /\ {http.id, up.id} \subseteq -1 .. http.fresh - 1
  /\ up.of \in Requests \cup {0} /\ up.type \in Fields /\ up.auto \in BOOLEAN
  /\ board.confirmed \in Requests \cup {0} /\ board.meddled \in BOOLEAN
  /\ board.end.kind \in {"run", "prompt", "boot", "reset", "crash"}
  /\ stolen \in BOOLEAN

\* "Only one upload can be performed": two connections are never both writing the upload
\* area, whatever comes in between, whoever hangs up or vanishes; with one exception in the
\* code: a small body that comes apart from its header sets and clears the mark as well, and
\* when it ends the mark is gone under the large upload that is coming in.
OneWriter ==
  ~stolen => \A a, b \in Requests : Large(s[a]) /\ Large(s[b]) => a = b

\* What goes to flash is, byte for byte, the image of the last upload that was answered
\* with its checksum, was valid, and goes to the part it was uploaded for; not one a
\* later upload, complete or not, has overwritten, with the exception of OneWriter.
FlashedIsUploaded ==
  ~stolen => \A i \in DOMAIN board.flash :
    LET w == board.flash[i]
    IN  w.of # 0 /\ w.image = Payload(w.of) /\ w.type = s[w.of].q.field /\ s[w.of].q.valid

\* An upload is written at most once, however often /result is asked for.
WrittenOnce ==
  \A i, j \in DOMAIN board.flash : board.flash[i].of = board.flash[j].of => i = j

\* When the failsafe leaves its loop for a confirmed upload, and no other upload or /result
\* meddled since (nor was it leaving for an earlier one by then), it boots exactly that
\* image, or resets when it was flashed, with the exception of OneWriter.
ActsOnConfirmed ==
  (board.end.kind \in {"prompt", "boot", "reset"} /\ ~board.meddled /\ ~stolen) =>
    /\ board.confirmed # 0
    /\ IF s[board.confirmed].q.field = "initramfs"
       THEN board.end = [kind |-> "boot", image |-> Payload(board.confirmed)]
       ELSE board.end.kind = "reset"

\* A confirmed initramfs is acted on in the end, whether its client waits for the response or
\* hangs up, unless another request meddles: auto_action_pending is set when the connection
\* of /result is cleaned up.  That is never when the connection vanishes; only then the
\* failsafe may wait on.
ConfirmedBoots ==
  (/\ board.confirmed # 0 /\ ~board.meddled
   /\ s[board.confirmed].q.field = "initramfs") ~>
     (board.meddled \/ ~Running \/ \E r \in Requests : s[r].phase = "lost" /\ s[r].ret = 0)

\* A finished, failed or abandoned upload makes room for the next: the upload mark does not
\* stay behind, except that of an upload whose connection vanished.
UploadReopens ==
  http.busy ~> (~http.busy \/ \E r \in Requests : s[r].phase = "lost" /\ s[r].uploading)

=============================================================================
