---------------------------- MODULE ClientSession ----------------------------
(***************************************************************************)
(* What a worker makes of the bytes of its clients (ClientTcpReadCb and    *)
(* ClientInMessageOpt of gatewayServer/worker_threads.cc).  A client sends *)
(* a token of TOKEN_LENGTH bytes and then lines.  All of it is collected   *)
(* in the rBuf of a conn, which is never emptied but for the token; the    *)
(* conns come from a free list and have served other clients before.       *)
(*                                                                         *)
(* A byte is <<c, p>>: the p-th of connection c.  ends[c] says where the   *)
(* lines of c end, counted from behind the token: line k has its CR at     *)
(* ends[c][k] - 1 and its LF at ends[c][k].  No other byte is a CR or LF.  *)
(* Byte nul[c] behind the token is a '\0' the client has sent, if it is    *)
(* none of these; 0: there is none.  size[c] is the length of the message  *)
(* that its first line makes, with cfd, cfdid and CRLF put to it, which is *)
(* more or less than the line has (libjson writes the text anew); 0: the   *)
(* line is no request, or names no app server.                             *)
(* A conn is used by one callback at a time, so a callback is one step.    *)
(* Which conn the free list gives out is left open (see ConnDispatch).     *)
(***************************************************************************)
EXTENDS Integers, Sequences, FiniteSetsExt

CONSTANTS
  Obj,         \* the conns that were ever allocated
  NoObj,       \* not a conn
  TokenLength, \* TOKEN_LENGTH
  BufSize,     \* DATA_BUFFER_SIZE
  MaxRead,     \* bytes libevent takes from a socket before it calls back
  Streams,     \* values of ends
  Nuls, Sizes, \* values of nul and size
  MaxConns,    \* bound: connections
  MaxBytes     \* bound: bytes a client sends behind the token

\* libevent 2.0 reads 4096 bytes at most, so the token is gone from the
\* buffer of 30720 long before it is full.
ASSUME ClientSessionAssumption ==
  /\ NoObj \notin Obj
  /\ TokenLength \in Nat \ {0} /\ BufSize \in Nat /\ MaxRead \in Nat \ {0}
  /\ TokenLength + MaxRead <= BufSize
  /\ MaxConns \in Nat /\ MaxBytes \in Nat
  /\ Streams \subseteq Seq(Nat) /\ Nuls \subseteq Nat /\ Sizes \subseteq Nat
  /\ \A e \in Streams : /\ \A k \in 1..Len(e) : e[k] >= 2
                        /\ \A j, k \in 1..Len(e) : j < k => e[j] + 2 <= e[k]

Conn == 1..MaxConns
\* The '\0' of the code, and what malloc left in a new buffer.
Nul == <<0, 0>>
Position == 1..(TokenLength + MaxBytes)
Byte == (Conn \X Position) \cup {Nul}

VARIABLES
  rBuf, rlen, isVerify,  \* the fields of a conn
  serves,                \* conn -> the connection whose sfd and id it has
  stage, obj,            \* connection -> what became of it, and its conn
  token,                 \* its token is right
  ends, nul, size,       \* the bytes behind it, see above
  arrived, read,         \* bytes of it that came; that bufferevent_read gave
  calls,                 \* history: calls of ClientInMessageOpt for it
  forwarded              \* history: <<connection, text>> sent to app servers

connVars == <<rBuf, rlen, isVerify, serves>>
clientVars == <<token, ends, nul, size>>
vars == <<connVars, stage, obj, clientVars, arrived, read, calls, forwarded>>

TypeOK ==
  /\ rBuf \in [Obj -> [1..BufSize -> Byte]]
  /\ rlen \in [Obj -> 0..BufSize]
  /\ isVerify \in [Obj -> BOOLEAN]
  /\ serves \in [Obj -> Conn \cup {0}]
  /\ stage \in [Conn -> {"none", "open", "closed"}]
  /\ obj \in [Conn -> Obj \cup {NoObj}]
  /\ token \in [Conn -> BOOLEAN]
  /\ nul \in [Conn -> Nat] /\ size \in [Conn -> Nat]
  /\ ends \in [Conn -> Streams \cup {<<>>}]
  /\ arrived \in [Conn -> 0..(TokenLength + MaxBytes)]
  /\ read \in [Conn -> 0..(TokenLength + MaxBytes)]
  /\ calls \in [Conn -> Nat]
  /\ \A r \in forwarded : r[1] \in Conn /\ r[2] \in Seq(Byte)

Init ==
  /\ rBuf = [o \in Obj |-> [i \in 1..BufSize |-> Nul]]
  /\ rlen = [o \in Obj |-> 0]
  /\ isVerify = [o \in Obj |-> FALSE]
  /\ serves = [o \in Obj |-> 0]
  /\ stage = [c \in Conn |-> "none"]
  /\ obj = [c \in Conn |-> NoObj]
  /\ token = [c \in Conn |-> FALSE]
  /\ ends = [c \in Conn |-> <<>>]
  /\ nul = [c \in Conn |-> 0] /\ size = [c \in Conn |-> 0]
  /\ arrived = [c \in Conn |-> 0] /\ read = [c \in Conn |-> 0]
  /\ calls = [c \in Conn |-> 0]
  /\ forwarded = {}

-----------------------------------------------------------------------------
(* The buffer.                                                             *)

IsCR(b) == b # Nul /\ \E k \in 1..Len(ends[b[1]]) : b[2] = TokenLength + ends[b[1]][k] - 1
IsLF(b) == b # Nul /\ \E k \in 1..Len(ends[b[1]]) : b[2] = TokenLength + ends[b[1]][k]

\* str_recv.find(CRLF), over the first len bytes.
CRLFs(buf, len) == {i \in 1..(len - 1) : IsCR(buf[i]) /\ IsLF(buf[i + 1])}

\* A slip: the last one.
FirstCRLF_Last(buf, len) == Max(CRLFs(buf, len))
FirstCRLF(buf, len) == Min(CRLFs(buf, len))

IsNul(b) == b = Nul \/ (b[2] = TokenLength + nul[b[1]] /\ nul[b[1]] # 0 /\ ~IsCR(b) /\ ~IsLF(b))

\* rBuf as a C string.
CString(buf) == SubSeq(buf, 1, Min({i \in 1..BufSize : IsNul(buf[i])}) - 1)

\* A slip: the length is taken back, the bytes stay.
WithoutToken_NoMove(buf, len) == buf

\* memmove over the token.
WithoutToken(buf, len) ==
  [i \in 1..BufSize |-> IF i <= len - TokenLength THEN buf[i + TokenLength] ELSE buf[i]]

\* Slips: no limit, and one for a terminator that nobody writes.
RecvSize_NoLimit(c, n) == arrived[c] + n - read[c]
RecvSize_OneLess(c, n) == Min({arrived[c] + n - read[c], BufSize - 1 - rlen[obj[c]]})

\* What has come and not been read, as far as there is room.
RecvSize(c, n) == Min({arrived[c] + n - read[c], BufSize - rlen[obj[c]]})

\* bufferevent_read behind what is there.
Filled(c, n) ==
  LET o == obj[c] IN
  [i \in 1..BufSize |-> IF i \in (rlen[o] + 1)..(rlen[o] + RecvSize(c, n))
                        THEN <<c, read[c] + i - rlen[o]>> ELSE rBuf[o][i]]

-----------------------------------------------------------------------------
(* The callbacks.                                                          *)

\* Slips: a conn off the free list keeps the length, or the verdict.
ConnNew_KeepsLength(c, o) ==
  /\ isVerify' = [isVerify EXCEPT ![o] = FALSE]
  /\ serves' = [serves EXCEPT ![o] = c]
  /\ UNCHANGED <<rBuf, rlen>>
ConnNew_KeepsVerdict(c, o) ==
  /\ rlen' = [rlen EXCEPT ![o] = 0]
  /\ serves' = [serves EXCEPT ![o] = c]
  /\ UNCHANGED <<rBuf, isVerify>>

\* conn_new: what is in the buffer stays.
ConnNew(c, o) ==
  /\ rlen' = [rlen EXCEPT ![o] = 0]
  /\ isVerify' = [isVerify EXCEPT ![o] = FALSE]
  /\ serves' = [serves EXCEPT ![o] = c]
  /\ UNCHANGED rBuf

\* A client connects and a worker gets its descriptor; what the client is
\* going to send is decided here.
Connect(c, o) ==
  /\ stage[c] = "none" /\ \A d \in Conn : d < c => stage[d] # "none"
  /\ \A d \in Conn : obj[d] # o
  /\ ConnNew(c, o)
  /\ stage' = [stage EXCEPT ![c] = "open"]
  /\ obj' = [obj EXCEPT ![c] = o]
  /\ token' \in {[token EXCEPT ![c] = t] : t \in BOOLEAN}
  /\ ends' \in {[ends EXCEPT ![c] = e] : e \in Streams}
  /\ nul' \in {[nul EXCEPT ![c] = p] : p \in Nuls}
  /\ size' \in {[size EXCEPT ![c] = n] : n \in Sizes}
  /\ UNCHANGED <<arrived, read, calls, forwarded>>

\* conn_close: the conn goes back to the free list as it is.
ConnClose(c) ==
  /\ stage' = [stage EXCEPT ![c] = "closed"]
  /\ obj' = [obj EXCEPT ![c] = NoObj]

\* ClientTcpErrorCb: the client has closed, or nothing came for too long.
ClientTcpErrorCb(c) ==
  /\ stage[c] = "open"
  /\ ConnClose(c)
  /\ UNCHANGED <<connVars, clientVars, arrived, read, calls, forwarded>>

\* A slip: the connection is closed if the token is right.
TokenIsWrong_Inverted(c) == token[c]
TokenIsWrong(c) == ~token[c]

\* RestructJsonStringToLogic: a text that is no request is logged.  Texts
\* are told apart by whose bytes they are.
IsRequest(text) == text # <<>> /\ size[text[1][1]] > 0

\* A slip: one byte more than the app server's buffer has room for.
TooLarge_Beyond(text) == size[text[1][1]] > BufSize

\* SendToAppServerModule: so is one that has become too long.
TooLarge(text) == size[text[1][1]] >= BufSize

\* ClientInMessageOpt: what is sent on has the tag of the conn.
ClientInMessageOpt(o, text) ==
  /\ calls' = [calls EXCEPT ![serves[o]] = @ + 1]
  /\ forwarded' = IF IsRequest(text) /\ ~TooLarge(text)
                  THEN forwarded \cup {<<serves[o], text>>} ELSE forwarded

\* The second half of ClientTcpReadCb, on a buffer of length len: the CR of
\* the first CRLF that is left becomes the end of the string.
\* Before the token is complete a line is too short to be a request.
HandleLine(o, buf, len) ==
  /\ rlen' = [rlen EXCEPT ![o] = len]
  /\ IF CRLFs(buf, len) # {}
     THEN LET ended == [buf EXCEPT ![FirstCRLF(buf, len)] = Nul] IN
          /\ rBuf' = [rBuf EXCEPT ![o] = ended]
          /\ ClientInMessageOpt(o, CString(ended))
     ELSE /\ rBuf' = [rBuf EXCEPT ![o] = buf]
          /\ UNCHANGED <<calls, forwarded>>

\* ClientTcpReadCb, after n bytes have come from the socket.  Once the
\* buffer is full nothing is read any more, but the callback still runs.
ClientTcpReadCb(c, n) ==
  LET o == obj[c]
      len == rlen[o] + RecvSize(c, n)
      completes == ~isVerify[o] /\ len >= TokenLength
  IN
  /\ stage[c] = "open"
  /\ arrived[c] + n <= TokenLength + MaxBytes
  /\ arrived' = [arrived EXCEPT ![c] = @ + n]
  /\ read' = [read EXCEPT ![c] = @ + RecvSize(c, n)]
  /\ \/ /\ completes /\ TokenIsWrong(c)
        /\ rBuf' = [rBuf EXCEPT ![o] = Filled(c, n)]
        /\ rlen' = [rlen EXCEPT ![o] = len]
        /\ isVerify' = [isVerify EXCEPT ![o] = TRUE]
        /\ ConnClose(c)
        /\ UNCHANGED <<calls, forwarded>>
     \/ /\ completes /\ ~TokenIsWrong(c)
        /\ isVerify' = [isVerify EXCEPT ![o] = TRUE]
        /\ HandleLine(o, WithoutToken(Filled(c, n), len), len - TokenLength)
        /\ UNCHANGED <<stage, obj>>
     \/ /\ ~completes
        /\ HandleLine(o, Filled(c, n), len)
        /\ UNCHANGED <<isVerify, stage, obj>>
  /\ UNCHANGED <<serves, clientVars>>

Next == \/ \E c \in Conn, o \in Obj : Connect(c, o)
        \/ \E c \in Conn : ClientTcpErrorCb(c)
        \/ \E c \in Conn, n \in 1..MaxRead : ClientTcpReadCb(c, n)

Spec == Init /\ [][Next]_vars

-----------------------------------------------------------------------------
(* Properties.                                                             *)

\* The text of the first line of c: without its CRLF, and up to a '\0' the
\* client has sent in it.
TextLength(c) == IF nul[c] \in 1..(ends[c][1] - 2) THEN nul[c] - 1 ELSE ends[c][1] - 2
FirstLine(c) == [i \in 1..TextLength(c) |-> <<c, TokenLength + i>>]

\* Its message is one that an app server's buffer has room for.
Sendable(c) == size[c] \in 1..(BufSize - 1)

\* What goes to an app server under the tag of a connection is the first
\* line of that very connection, whole, it fits there, and the token was
\* right - whatever the conn, its buffer and its flags were used for
\* before, however the bytes were cut, and although the buffer is never
\* emptied.
OnlyOwnFirstLine ==
  \A r \in forwarded :
    /\ token[r[1]] /\ Sendable(r[1]) /\ ends[r[1]] # <<>>
    /\ r[2] = FirstLine(r[1])

\* The lines of c that are complete in its buffer.
LinesRead(c) == {k \in 1..Len(ends[c]) : TokenLength + ends[c][k] <= read[c]}

\* Each line that has been read completely stands for one handling (of the
\* first line), done or still to do: a CRLF in the buffer is not taken
\* twice, and not lost when several come with one read.
EachLineOneCall ==
  \A c \in Conn : stage[c] = "open" =>
    calls[c] + Cardinality(CRLFs(rBuf[obj[c]], rlen[obj[c]])) = Cardinality(LinesRead(c))

\* A request that fits the buffer, and the app server's once it is tagged,
\* goes out with its last byte: no cut of the stream, and no lines behind
\* it that came with it, keep it back.
FirstLineHandled ==
  \A c \in Conn :
    /\ stage[c] = "open" /\ token[c] /\ Sendable(c)
    /\ ends[c] # <<>> /\ TextLength(c) > 0 /\ ends[c][1] <= BufSize
    /\ arrived[c] >= TokenLength + ends[c][1]
    => <<c, FirstLine(c)>> \in forwarded
=============================================================================
