----------------------------- MODULE SwHttpFile -----------------------------
(***************************************************************************)
(* swhttpfile.c: a file read over HTTP.  sw_httpfile_connect finds a       *)
(* server (among several addresses, with a list of bad ones shared by all  *)
(* files), follows redirections and takes the framing of the body from the *)
(* header; reads then undo the framing, whole, by section or by chunk, and *)
(* a seek connects anew.                                                   *)
(*                                                                         *)
(* The byte at position i of the file is the record [kind |-> "data",      *)
(* v |-> i]; a chunk's head is one byte that holds its size, followed by   *)
(* CR and LF.  How TCP cuts the stream is left open: any part of the body  *)
(* may arrive with the header, and any receive may come to nothing.        *)
(***************************************************************************)
EXTENDS Integers, Sequences, FiniteSets, SequencesExt

CONSTANTS
  FileSize,      \* bytes in the file
  ReadSizes,     \* sizes read
  SeekTo,        \* positions sought, before they are checked
  Sections,      \* pairs of a start_pos and an end_pos; 0 for no end
  HonoursRange,  \* whether the servers serve ranges
  Framing,       \* of the bodies: "length", "range", "chunked", "close"
  RrsCnt,        \* rrscnt: addresses beside the URL's own
  BadSize,       \* entries of m_bad_iplist
  RediLimit, RediOther, RediSame,   \* 20, 5 and 1
  MaxCalls       \* bound on the calls on one file

ASSUME SizeAssumption == FileSize \in Nat \ {0} /\ ReadSizes \subseteq Nat \ {0}
ASSUME SectionAssumption ==
  \A s \in Sections : s[1] \in Nat /\ s[2] \in Nat /\ (s[2] > 0 => s[1] < s[2])
ASSUME RrsAssumption == RrsCnt \in Nat /\ BadSize \in Nat \ {0}
ASSUME RediAssumption ==
  {RediLimit, RediOther, RediSame} \subseteq Nat \ {0} /\ RediSame <= RediOther

VARIABLES
  http,       \* the open file
  wire,       \* what the server has yet to send on the connection
  m_bad_iplist, m_bad_ip_seq,
  pc,         \* what the calling thread is in
  seek_pos, redicnt, pos, pass,   \* of sw_httpfile_connect, rrs_http_connect
  size, buf,  \* of sw_httpfile_read
  calls,
  \* History: where the bytes in buf were read, whether a seek has failed,
  \* and the latest addresses that failed, in that order.
  from, failed, failures

bad == <<m_bad_iplist, m_bad_ip_seq, failures>>
connecting == <<seek_pos, redicnt, pos, pass>>
reading == <<size, buf, from>>
vars == <<http, wire, bad, pc, connecting, reading, calls, failed>>

NotConnecting == seek_pos' = 0 /\ redicnt' = 0 /\ pos' = 0 /\ pass' = 0
NotReading == size' = 0 /\ buf' = << >> /\ from' = 0

Address == 0..RrsCnt
NoAddress == RrsCnt + 1

Data(i) == [kind |-> "data", v |-> i]
Chunk(n) == [kind |-> "size", v |-> n]
CR == [kind |-> "CR", v |-> 0]
LF == [kind |-> "LF", v |-> 0]
Junk == [kind |-> "junk", v |-> 0]

NewFile(s) ==
  [httpclient |-> FALSE, url |-> "own", filesize |-> 0, curr_pos |-> 0,
   start_pos |-> s[1], end_pos |-> s[2], bchunk |-> FALSE, chunksize |-> 0,
   chunkpos |-> 0, bchunkend |-> FALSE, bfstchunk |-> FALSE,
   recv_error |-> FALSE, tmp |-> << >>, rrspos |-> 0,
   rrsipstatus |-> [a \in Address |-> FALSE], b_shutdown |-> FALSE]

Init ==
  /\ \E s \in Sections : http = NewFile(s)
  /\ wire = << >>
  /\ m_bad_iplist = [i \in 1..BadSize |-> [ip |-> NoAddress, seq |-> 0]]
  /\ m_bad_ip_seq = 0 /\ failures = << >>
  /\ pc = "closed" /\ seek_pos = 0 /\ redicnt = 0 /\ pos = 0 /\ pass = 0
  /\ size = 0 /\ buf = << >> /\ from = 0 /\ calls = 0 /\ failed = FALSE

-----------------------------------------------------------------------------
(* The list of bad addresses                                               *)

rrs_check_ip_status(a) == \A i \in 1..BadSize : m_bad_iplist[i].ip # a

\* Mutant: the latest entry is taken instead of the oldest.
EntryLatest ==
  LET free == {i \in 1..BadSize : m_bad_iplist[i].ip = NoAddress}
  IN IF free # {} THEN CHOOSE i \in free : \A j \in free : i <= j
     ELSE CHOOSE i \in 1..BadSize :
            \A j \in 1..BadSize : m_bad_iplist[i].seq >= m_bad_iplist[j].seq

\* The entry a new bad address takes: the first free one, or the one that
\* was entered longest ago.
Entry ==
  LET free == {i \in 1..BadSize : m_bad_iplist[i].ip = NoAddress}
  IN IF free # {} THEN CHOOSE i \in free : \A j \in free : i <= j
     ELSE CHOOSE i \in 1..BadSize :
            \A j \in 1..BadSize : m_bad_iplist[i].seq <= m_bad_iplist[j].seq

rrs_add_bad_ip(a) ==
  IF rrs_check_ip_status(a)
  THEN /\ m_bad_iplist' = [m_bad_iplist EXCEPT ![Entry] =
                             [ip |-> a, seq |-> m_bad_ip_seq]]
       /\ m_bad_ip_seq' = m_bad_ip_seq + 1
       /\ failures' = Append(IF Len(failures) < BadSize THEN failures
                             ELSE Tail(failures), a)
  ELSE UNCHANGED bad

rrs_remove_bad_ip(a) ==
  /\ m_bad_iplist' = [i \in 1..BadSize |-> IF m_bad_iplist[i].ip = a
                        THEN [ip |-> NoAddress, seq |-> 0] ELSE m_bad_iplist[i]]
  /\ failures' = SelectSeq(failures, LAMBDA b : b # a)
  /\ UNCHANGED m_bad_ip_seq

-----------------------------------------------------------------------------
(* sw_httpfile_connect                                                     *)

\* The beginning of sw_httpfile_connect, for the position p; f is the file
\* as its caller leaves it.
Connect(f, p) ==
  /\ http' = [f EXCEPT !.bfstchunk = TRUE, !.bchunkend = FALSE,
                       !.chunkpos = 0, !.chunksize = 0, !.recv_error = FALSE,
                       !.bchunk = FALSE, !.httpclient = FALSE]
  /\ seek_pos' = p /\ redicnt' = 0 /\ pos' = f.rrspos /\ pass' = 1
  /\ wire' = << >>

\* httpfile_open; its caller has nothing to do with the file until then.
Open ==
  /\ pc = "closed" /\ calls < MaxCalls
  /\ calls' = calls + 1
  /\ \E s \in Sections : Connect(NewFile(s), s[1])
  /\ pc' = "opening" /\ NotReading /\ failed' = FALSE
  /\ UNCHANGED bad

\* sw_httpfile_connect returns -1: the open fails and the file is freed, or
\* the seek fails.
ConnectFails ==
  /\ pc' = IF pc = "opening" THEN "closed" ELSE "idle"
  /\ failed' = TRUE
  /\ NotConnecting
  /\ UNCHANGED <<reading, calls>>

Busy == pc \in {"opening", "seeking"}
Unconnected == Busy /\ ~ http.httpclient

\* Without other addresses, or after a redirection, the URL's own is tried.
ConnectServer ==
  /\ Unconnected /\ (redicnt > 0 \/ RrsCnt = 0) /\ ~ http.b_shutdown
  /\ http' = [http EXCEPT !.httpclient = TRUE]
  /\ UNCHANGED <<wire, bad, pc, connecting, reading, calls, failed>>

ConnectServerFails ==
  /\ Unconnected /\ (redicnt > 0 \/ RrsCnt = 0)
  /\ ConnectFails
  /\ UNCHANGED <<http, wire, bad>>

\* rrs_http_connect goes round the addresses twice: first those that are
\* not known to be bad, then the others, and never to one used before.
Rrs == Unconnected /\ redicnt = 0 /\ RrsCnt > 0 /\ pass <= 2

Candidate ==
  /\ ~ http.b_shutdown /\ ~ http.rrsipstatus[pos]
  /\ pass = 1 => rrs_check_ip_status(pos)

NextAddress ==
  /\ pos' = (pos + 1) % (RrsCnt + 1)
  /\ pass' = IF pos' = http.rrspos THEN pass + 1 ELSE pass
  /\ UNCHANGED <<seek_pos, redicnt, wire, pc, reading, calls, failed>>

RrsSkip ==
  /\ Rrs /\ ~ Candidate
  /\ NextAddress
  /\ UNCHANGED <<http, bad>>

RrsFails ==
  /\ Rrs /\ Candidate
  /\ http' = [http EXCEPT !.rrsipstatus[pos] = TRUE]
  /\ rrs_add_bad_ip(pos)
  /\ NextAddress

RrsConnects ==
  /\ Rrs /\ Candidate
  /\ http' = [http EXCEPT !.rrsipstatus[pos] = TRUE, !.rrspos = pos,
                          !.httpclient = TRUE]
  /\ IF pass = 2 THEN rrs_remove_bad_ip(pos) ELSE UNCHANGED bad
  /\ UNCHANGED <<wire, pc, connecting, reading, calls, failed>>

RrsGivesUp ==
  /\ Unconnected /\ redicnt = 0 /\ RrsCnt > 0 /\ pass > 2
  /\ ConnectFails
  /\ UNCHANGED <<http, wire, bad>>

-----------------------------------------------------------------------------
(* The request and its response                                            *)

Connected == Busy /\ http.httpclient

Ranged == seek_pos > 0 \/ http.end_pos > 0

\* The last position a server sends, and the first.
LastSent == IF Ranged /\ HonoursRange /\ 0 < http.end_pos /\ http.end_pos < FileSize
            THEN http.end_pos ELSE FileSize - 1
FirstSent == IF Ranged /\ HonoursRange THEN seek_pos ELSE 0

Bytes(i, j) == [k \in 1..(j - i + 1) |-> Data(i + k - 1)]

\* The bytes from i to j in chunks, of which one begins at each of starts.
Chunks(i, j, starts) ==
  LET ends == {k \in i..j : k = j \/ k + 1 \in starts}
      length(k) == (CHOOSE e \in ends : e >= k /\ \A d \in ends : d >= k => e <= d) - k + 1
      piece(k) == (IF k \in starts THEN <<Chunk(length(k)), CR, LF>> ELSE << >>)
                  \o <<Data(k)>> \o (IF k \in ends THEN <<CR, LF>> ELSE << >>)
  IN FlattenSeq([n \in 1..(j - i + 1) |-> piece(i + n - 1)])
     \o <<Chunk(0), CR, LF, CR, LF>>

\* What follows the header.
Bodies(framing) ==
  IF framing = "chunked"
  THEN {Chunks(FirstSent, LastSent, {FirstSent} \cup t) :
          t \in SUBSET (FirstSent + 1..LastSent)}
  ELSE {Bytes(FirstSent, LastSent)}

\* filesize as the header gives it: from Content-Range, from Content-Length,
\* or not at all.
NewSize(framing) ==
  CASE framing = "range" /\ Ranged /\ HonoursRange -> FileSize
    [] framing \in {"length", "range"} ->
         IF Ranged /\ HonoursRange THEN seek_pos + (LastSent - FirstSent + 1)
         ELSE FileSize
    [] OTHER -> http.filesize

\* The request fails, the response does not arrive, or it is not complete:
\* the client stays, and tmp_data_size counts what it counted before.
NoResponse ==
  /\ Connected /\ ~ http.b_shutdown
  /\ ConnectFails
  /\ wire' = << >>
  /\ UNCHANGED <<http, bad>>

\* Shut down in the meantime.
ConnectShutdown ==
  /\ Connected /\ http.b_shutdown
  /\ http' = [http EXCEPT !.httpclient = FALSE]
  /\ ConnectFails
  /\ wire' = << >>
  /\ UNCHANGED bad

\* An error, written over what tmp_buf held.
ErrorResponse ==
  /\ Connected /\ ~ http.b_shutdown
  /\ http' = [http EXCEPT !.tmp = [i \in DOMAIN @ |-> Junk]]
  /\ wire' = <<Junk>>
  /\ ConnectFails
  /\ UNCHANGED bad

\* Mutant: redirections to the same URL are not counted.
RedirectUncounted(cost) ==
  /\ Connected /\ ~ http.b_shutdown
  /\ IF redicnt + cost >= RediLimit
     THEN /\ ConnectFails
          /\ http' = [http EXCEPT !.tmp = [i \in DOMAIN @ |-> Junk]]
     ELSE /\ redicnt' = IF cost = RediOther THEN redicnt + cost ELSE redicnt
          /\ http' = [http EXCEPT !.httpclient = FALSE,
                        !.tmp = [i \in DOMAIN @ |-> Junk],
                        !.url = IF cost = RediOther THEN "other" ELSE @]
          /\ UNCHANGED <<pc, seek_pos, pos, pass, reading, calls, failed>>
  /\ wire' = << >>
  /\ UNCHANGED bad

\* A redirection, to the same URL or to another; the file keeps the new one.
Redirect(cost) ==
  /\ Connected /\ ~ http.b_shutdown
  /\ IF redicnt + cost >= RediLimit
     THEN /\ ConnectFails
          /\ http' = [http EXCEPT !.tmp = [i \in DOMAIN @ |-> Junk]]
     ELSE /\ redicnt' = redicnt + cost
          /\ http' = [http EXCEPT !.httpclient = FALSE,
                        !.tmp = [i \in DOMAIN @ |-> Junk],
                        !.url = IF cost = RediOther THEN "other" ELSE @]
          /\ UNCHANGED <<pc, seek_pos, pos, pass, reading, calls, failed>>
  /\ wire' = << >>
  /\ UNCHANGED bad

\* A good response: k bytes of the body arrive with the header.
Response(framing) ==
  /\ Connected /\ ~ http.b_shutdown /\ FirstSent <= LastSent
  /\ \E body \in Bodies(framing) : \E k \in 0..Len(body) :
       /\ http' = [http EXCEPT
            !.bchunk = framing = "chunked",
            !.filesize = NewSize(framing),
            !.tmp = SubSeq(body, 1, k),
            !.curr_pos = seek_pos]
       /\ wire' = SubSeq(body, k + 1, Len(body))
  /\ pc' = "idle" /\ NotConnecting
  /\ UNCHANGED <<bad, reading, calls, failed>>

-----------------------------------------------------------------------------
(* sw_httpfile_seek, sw_httpfile_close, sw_httpfile_shutdown               *)

\* A seek that needs no connection: refused, or out of what can be read.
SeekNowhere(p) ==
  /\ pc = "idle" /\ calls < MaxCalls
  /\ calls' = calls + 1
  /\ \/ /\ http.bchunk \/ http.filesize <= 0
        /\ UNCHANGED <<http, wire>>
     \/ /\ ~ http.bchunk /\ http.filesize > 0
        /\ \/ p >= http.filesize
           \/ http.end_pos > 0 /\ (p < http.start_pos \/ http.end_pos <= p)
        /\ http' = [http EXCEPT !.curr_pos = p, !.httpclient = FALSE]
        /\ wire' = << >>
  /\ NotReading
  /\ UNCHANGED <<bad, pc, connecting, failed>>

Seek(p) ==
  /\ pc = "idle" /\ calls < MaxCalls
  /\ ~ http.bchunk /\ p < http.filesize
  /\ http.end_pos > 0 => http.start_pos <= p /\ p < http.end_pos
  /\ calls' = calls + 1
  /\ Connect(http, p)
  /\ pc' = "seeking" /\ NotReading
  /\ UNCHANGED <<bad, failed>>

Close ==
  /\ pc = "idle"
  /\ pc' = "closed" /\ wire' = << >>
  /\ http' = [http EXCEPT !.httpclient = FALSE]
  /\ UNCHANGED <<bad, connecting, reading, calls, failed>>

\* Another thread shuts the file down and closes its socket.
Shutdown ==
  /\ pc # "closed" /\ ~ http.b_shutdown
  /\ http' = [http EXCEPT !.b_shutdown = TRUE]
  /\ wire' = << >>
  /\ UNCHANGED <<bad, pc, connecting, reading, calls, failed>>

-----------------------------------------------------------------------------
(* sw_httpfile_read                                                        *)

\* httpfile_read_file_data returns n of the m bytes asked for: all that is
\* in tmp_buf, and more unless the receives come to nothing.
Stream == http.tmp \o wire
Received(m) == {n \in 0..m : n <= Len(Stream) /\ (n >= m \/ n >= Len(http.tmp))}

\* Mutant: what is left in tmp_buf is not moved to its front.
UsedUnmoved(f, n) == [f EXCEPT !.tmp = SubSeq(@, 1, Len(@) - n)]

\* The file f after n bytes of the stream are used.
Used(f, n) == [f EXCEPT !.tmp = SubSeq(@, n + 1, Len(@))]

\* The rest of the wire then.
WireAfter(n) == IF n <= Len(http.tmp) THEN wire
                ELSE SubSeq(wire, n - Len(http.tmp) + 1, Len(wire))

\* A read begins; without a client it returns 0.
Read(m) ==
  /\ pc = "idle" /\ calls < MaxCalls
  /\ calls' = calls + 1
  /\ size' = m /\ buf' = << >> /\ from' = http.curr_pos
  /\ pc' = IF ~ http.httpclient THEN "idle"
           ELSE IF http.bchunk
                THEN IF http.bchunkend \/ http.recv_error THEN "idle" ELSE "chunk"
                ELSE "whole"
  /\ UNCHANGED <<http, wire, bad, connecting, failed>>

\* The end a read may not pass: of the section, or of the file.
Limit == IF http.end_pos > 0 THEN http.end_pos ELSE http.filesize

\* httpfile_whole_read and httpfile_sect_read.
WholeRead ==
  /\ pc = "whole"
  /\ LET m == IF Limit > 0 /\ http.curr_pos + size > Limit
              THEN Limit - http.curr_pos ELSE size
     IN IF Limit > 0 /\ http.curr_pos >= Limit
        THEN UNCHANGED <<http, wire, buf>>
        ELSE \E n \in Received(m) :
               /\ buf' = SubSeq(Stream, 1, n)
               /\ http' = [Used(http, n) EXCEPT !.recv_error = n # m,
                                                !.curr_pos = @ + n]
               /\ wire' = WireAfter(n)
  /\ pc' = "idle"
  /\ UNCHANGED <<bad, connecting, size, from, calls, failed>>

\* httpfile_chunk_read returns; sw_httpfile_read moves on by what it read.
ChunkReturns(f) ==
  /\ http' = [f EXCEPT !.curr_pos = @ + Len(buf')]
  /\ pc' = "idle"

NeedsHead == http.chunksize <= http.chunkpos

\* Mutant: the line end behind a chunk is left in the stream.
SkipLineEndNever(f) == 0

\* The CR and LF behind a chunk, of which tmp_buf may hold any part.
SkipLineEnd(f) == IF f.bfstchunk THEN 0 ELSE 2

\* The first line end in the stream, behind the s bytes that are skipped.
HeadEnd(s) ==
  LET at == {i \in s + 1..Len(Stream) - 1 : Stream[i] = CR /\ Stream[i + 1] = LF}
  IN IF at = {} THEN 0 ELSE CHOOSE i \in at : \A j \in at : i <= j

Hex(b) == IF b.kind = "size" THEN b.v ELSE 0

\* The head of the next chunk: its size up to the line end.
ChunkHead ==
  /\ pc = "chunk" /\ NeedsHead
  /\ LET s == SkipLineEnd(http)
         e == HeadEnd(s)
         f == [Used(http, e + 1) EXCEPT !.chunksize = Hex(Stream[s + 1]),
                                        !.bfstchunk = FALSE]
     IN /\ e > 0
        /\ wire' = WireAfter(e + 1)
        /\ IF f.chunksize = 0
           THEN UNCHANGED buf /\ ChunkReturns([f EXCEPT !.bchunkend = TRUE])
           ELSE http' = [f EXCEPT !.chunkpos = 0] /\ UNCHANGED <<pc, buf>>
  /\ UNCHANGED <<bad, connecting, size, from, calls, failed>>

\* The head does not arrive in ten tries.
ChunkHeadFails ==
  /\ pc = "chunk" /\ NeedsHead
  /\ UNCHANGED buf
  /\ LET s == SkipLineEnd(http) IN
       HeadEnd(s) = 0 \/ HeadEnd(s) >= Len(http.tmp)
  /\ ChunkReturns([http EXCEPT !.recv_error = TRUE])
  /\ UNCHANGED <<wire, bad, connecting, size, from, calls, failed>>

\* Data of the chunk, no more than is left of it and of the buffer.
ChunkData ==
  /\ pc = "chunk" /\ ~ NeedsHead
  /\ LET left == http.chunksize - http.chunkpos
         room == size - Len(buf)
         m == IF room > left THEN left ELSE room
     IN \E n \in Received(m) :
          LET f == [Used(http, n) EXCEPT !.chunkpos = @ + n, !.recv_error = n # m]
          IN /\ buf' = buf \o SubSeq(Stream, 1, n)
             /\ wire' = WireAfter(n)
             /\ IF n # m \/ Len(buf') = size
                THEN ChunkReturns(f)
                ELSE http' = f /\ UNCHANGED pc
  /\ UNCHANGED <<bad, connecting, size, from, calls, failed>>

-----------------------------------------------------------------------------
Next ==
  \/ Open \/ Close \/ Shutdown
  \/ ConnectServer \/ ConnectServerFails
  \/ RrsSkip \/ RrsFails \/ RrsConnects \/ RrsGivesUp
  \/ NoResponse \/ ConnectShutdown \/ ErrorResponse
  \/ Redirect(RediOther) \/ Redirect(RediSame)
  \/ \E framing \in Framing : Response(framing)
  \/ \E p \in SeekTo : SeekNowhere(p) \/ Seek(p)
  \/ \E m \in ReadSizes : Read(m)
  \/ WholeRead \/ ChunkHead \/ ChunkHeadFails \/ ChunkData

Spec == Init /\ [][Next]_vars

\* A call that has begun goes on.
Call ==
  \/ ConnectServer \/ ConnectServerFails
  \/ RrsSkip \/ RrsFails \/ RrsConnects \/ RrsGivesUp
  \/ NoResponse \/ ConnectShutdown \/ ErrorResponse
  \/ Redirect(RediOther) \/ Redirect(RediSame)
  \/ \E framing \in Framing : Response(framing)
  \/ WholeRead \/ ChunkHead \/ ChunkHeadFails \/ ChunkData

FairSpec == Spec /\ WF_vars(Call)

-----------------------------------------------------------------------------
sw_httpfile_eof ==
  \/ http.recv_error
  \/ http.curr_pos = http.filesize /\ http.filesize # 0
  \/ http.bchunk /\ http.bchunkend
  \/ http.end_pos > 0 /\ http.curr_pos = http.end_pos

\* The variables have their types.
TypeOK ==
  /\ pc \in {"closed", "opening", "seeking", "idle", "whole", "chunk"}
  /\ http.curr_pos \in Nat /\ http.filesize \in 0..FileSize
  /\ http.chunkpos \in Nat /\ (http.chunkpos <= http.chunksize \/ http.bchunkend)
  /\ http.rrspos \in Address /\ pos \in Address /\ pass \in 0..3
  /\ redicnt \in 0..RediLimit - 1
  /\ Len(buf) <= size
  /\ \A i \in 1..BadSize : m_bad_iplist[i].ip \in Address \cup {NoAddress}

\* A read returns the bytes of the file from the position it began at, in
\* order, whichever way the body is framed, cut into chunks and segments, and
\* read after whatever seeks, as long as no seek has failed
\* (httpfile_whole_read, httpfile_sect_read, httpfile_chunk_read).
ReadsFile ==
  /\ TypeOK
  /\ ~ failed => \A i \in 1..Len(buf) : buf[i] = Data(from + i - 1)

\* The same, without the proviso: a failed seek leaves the client and the
\* count of buffered bytes, and the next read returns the error response.
ReadsFileAlways == \A i \in 1..Len(buf) : buf[i] = Data(from + i - 1)

\* Where sw_httpfile_eof holds without a receive having failed, the file, or
\* the section asked for, has been read to its end.
EofIsEnd ==
  pc = "idle" /\ sw_httpfile_eof /\ ~ http.recv_error /\ ~ failed =>
    http.curr_pos >= IF http.end_pos > 0 /\ http.end_pos < FileSize
                     THEN http.end_pos ELSE FileSize

\* A read that returns nothing leaves sw_httpfile_eof true.
NothingIsEof ==
  pc = "idle" /\ size > 0 /\ buf = << >> /\ from = http.curr_pos => sw_httpfile_eof

\* The list of bad addresses holds the last ones that failed, each once, and
\* forgets the one that failed longest ago (rrs_add_bad_ip).
BadAreLatest ==
  /\ {m_bad_iplist[i].ip : i \in 1..BadSize} \ {NoAddress} = ToSet(failures)
  /\ \A i, j \in 1..BadSize : m_bad_iplist[i].ip = m_bad_iplist[j].ip =>
       i = j \/ m_bad_iplist[i].ip = NoAddress

\* What the comment on the addresses says: a file that has been redirected
\* does not use them (struct sw_httpfile).
NoRrsOnceRedirected == Rrs => http.url = "own"

\* Every call returns: the redirections and the addresses run out.
CallReturns == (pc \notin {"idle", "closed"}) ~> (pc \in {"idle", "closed"})
=============================================================================
