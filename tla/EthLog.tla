------------------------------- MODULE EthLog -------------------------------
(***************************************************************************)
(* The way of the 1553 log from the target to a file: the server task      *)
(* (1553/ethsrv.c, called by task_eth_server of 1553/bm_logger.c), which   *)
(* takes words out of the compressed log, and the client that asks for     *)
(* them again and again (1553/linux_client.c).                             *)
(*                                                                         *)
(* Between them is a TCP connection: two streams of bytes that arrive in   *)
(* order and in pieces of any size.  A command is its five bytes.  Of an   *)
(* answer the model keeps where its parts end: the header is HdrLen and a  *)
(* word WordLen bytes, each byte with the word it belongs to.              *)
(*                                                                         *)
(* Names begin with Eth where other samples have the same idea, so that    *)
(* several samples can be checked in one run.                              *)
(***************************************************************************)
EXTENDS Integers, Sequences

CONSTANTS
  HdrLen,    \* bytes of an answer before its words (8)
  WordLen,   \* bytes of a word (4)
  MaxTake,   \* words in one answer at most (250)
  MaxTaken   \* bound: words the log ever holds

ASSUME EthLengths == {HdrLen, WordLen} \subseteq Nat \ {0} /\ {MaxTake, MaxTaken} \subseteq Nat

VARIABLES
  client,    \* "off", or where the client is: "send", "hdr" or "data"
  server,    \* where the server is: "accept", "hdr", "body" or "answer"
  hung,      \* the server has closed the connection of a client that is on
  broken,    \* the connection was reset
  up, down,  \* bytes under way to the server and to the client
  sbuf,      \* server: buf, the bytes of a command; it keeps old ones
  taken,     \* words taken out of the log so far
  log_cnt,   \* client: words in this answer
  len,       \* client: bytes of them it has got
  words,     \* client: the words, as bytes
  file,      \* client: the words it has put into the file
  start,     \* history: words taken before this client came
  torn       \* history: a word came in two pieces

server_vars == <<server, sbuf, taken>>
client_vars == <<client, log_cnt, len, words, file, start, torn>>
ethvars == <<server_vars, client_vars, hung, broken, up, down>>

Byte(w, b) == [word |-> w, byte |-> b]
Header(n) == [i \in 1 .. HdrLen |-> Byte(0, n)]
Words(first, n) ==
  [i \in 1 .. n * WordLen |-> Byte(first + ((i - 1) \div WordLen), (i - 1) % WordLen)]

Skip(s, n) == SubSeq(s, n + 1, Len(s))
Least(a, b) == IF a < b THEN a ELSE b

(* A read of up to n bytes returns some of those that have come.           *)
Pieces(s, n) == 1 .. Least(n, Len(s))

EthInit ==
  /\ client = "off" /\ server = "accept" /\ hung = FALSE /\ broken = FALSE
  /\ up = <<>> /\ down = <<>>
  /\ sbuf = <<0, 0, 0, 0, 0>> /\ taken = 0
  /\ log_cnt = 0 /\ len = 0 /\ file = <<>> /\ start = 0 /\ torn = FALSE
  /\ words = [i \in 1 .. MaxTake * WordLen |-> Byte(0, 0)]

-----------------------------------------------------------------------------
(* The client.                                                             *)

(* A client is started; its file is empty.  What it sends before it is     *)
(* accepted waits, so it may as well connect when it is.                   *)
Connect ==
  /\ client = "off" /\ server = "accept"
  /\ client' = "send" /\ server' = "hdr"
  /\ hung' = FALSE /\ broken' = FALSE /\ up' = <<>> /\ down' = <<>>
  /\ log_cnt' = 0 /\ len' = 0 /\ file' = <<>> /\ start' = taken /\ torn' = FALSE
  /\ words' = [i \in 1 .. MaxTake * WordLen |-> Byte(0, 0)]
  /\ UNCHANGED <<sbuf, taken>>

(* The command: length 1, CMD_GET_LOG, a byte that is not set, device 0.   *)
Command(reserved) == <<0, 1, 3, reserved, 0>>

ClientSend ==
  /\ client = "send"
  /\ \/ /\ ~broken
        /\ \E reserved \in 0 .. 1 : up' = up \o Command(reserved)
        /\ client' = "hdr"
     \/ (broken \/ hung) /\ client' = "off" /\ UNCHANGED up
  /\ UNCHANGED <<log_cnt, len, words, file, start, torn, server_vars, hung, broken, down>>

(* A header that does not come in one piece ends the client.               *)
ClientHeader ==
  /\ client = "hdr"
  /\ \/ \E k \in Pieces(down, HdrLen) :
          /\ down' = Skip(down, k)
          /\ log_cnt' = IF k = HdrLen THEN down[HdrLen].byte ELSE log_cnt
          /\ client' = IF k < HdrLen THEN "off" ELSE IF log_cnt' > 0 THEN "data" ELSE "send"
     \/ down = <<>> /\ (broken \/ hung) /\ client' = "off" /\ UNCHANGED <<down, log_cnt>>
  /\ UNCHANGED <<len, words, file, start, torn, server_vars, hung, broken, up>>

(* Each piece goes to the word the last one ended in.                      *)
At(n) == n \div WordLen

(* The words a buffer holds; 0 for one put together of several.            *)
WordAt(buf, i) ==
  LET b == SubSeq(buf, (i - 1) * WordLen + 1, i * WordLen) IN
    IF b = Words(b[1].word, 1) THEN b[1].word ELSE 0

ReceivedNoReset(k) ==                         \* mutant: the length goes on in the next answer
  /\ words' = [i \in DOMAIN words |->
                 IF i - At(len) * WordLen \in 1 .. k THEN down[i - At(len) * WordLen]
                                                     ELSE words[i]]
  /\ down' = Skip(down, k)
  /\ torn' = (torn \/ (len + k) % WordLen # 0)
  /\ len' = len + k
  /\ IF len + k = log_cnt * WordLen
       THEN /\ file' = file \o [i \in 1 .. log_cnt |-> WordAt(words', i)]
            /\ client' = "send"
       ELSE UNCHANGED <<file, client>>

ReceivedAtStart(k) ==                         \* mutant: each piece to the start of the log
  /\ words' = [i \in DOMAIN words |-> IF i \in 1 .. k THEN down[i] ELSE words[i]]
  /\ down' = Skip(down, k)
  /\ torn' = (torn \/ (len + k) % WordLen # 0)
  /\ IF len + k = log_cnt * WordLen
       THEN /\ file' = file \o [i \in 1 .. log_cnt |-> WordAt(words', i)]
            /\ len' = 0 /\ client' = "send"
       ELSE len' = len + k /\ UNCHANGED <<file, client>>

ReceivedKeepsLen(k) ==                        \* mutant: len = recv(...)
  /\ words' = [i \in DOMAIN words |->
                 IF i - At(len) * WordLen \in 1 .. k THEN down[i - At(len) * WordLen]
                                                     ELSE words[i]]
  /\ down' = Skip(down, k)
  /\ torn' = (torn \/ (len + k) % WordLen # 0)
  /\ IF k = log_cnt * WordLen
       THEN /\ file' = file \o [i \in 1 .. log_cnt |-> WordAt(words', i)]
            /\ len' = 0 /\ client' = "send"
       ELSE len' = k /\ UNCHANGED <<file, client>>

Received(k) ==
  /\ words' = [i \in DOMAIN words |->
                 IF i - At(len) * WordLen \in 1 .. k THEN down[i - At(len) * WordLen]
                                                     ELSE words[i]]
  /\ down' = Skip(down, k)
  /\ torn' = (torn \/ (len + k) % WordLen # 0)
  /\ IF len + k = log_cnt * WordLen
       THEN /\ file' = file \o [i \in 1 .. log_cnt |-> WordAt(words', i)]
            /\ len' = 0 /\ client' = "send"
       ELSE len' = len + k /\ UNCHANGED <<file, client>>

(* When the connection ends here the client tries again for ever.          *)
ClientData ==
  /\ client = "data"
  /\ \E k \in Pieces(down, (log_cnt - At(len)) * WordLen) : Received(k)
  /\ UNCHANGED <<log_cnt, start, server_vars, hung, broken, up>>

Kill ==
  /\ client # "off" /\ client' = "off"
  /\ UNCHANGED <<log_cnt, len, words, file, start, torn, server_vars, hung, broken, up, down>>

-----------------------------------------------------------------------------
(* The server.                                                             *)

(* The end of server_loop; task_eth_server goes back to accept.            *)
Close == server' = "accept" /\ hung' = (client # "off")

Ended == up = <<>> /\ (client = "off" \/ broken)

(* A piece of a command overwrites the first bytes in the buffer.          *)
Overwritten(from, piece) ==
  [i \in 1 .. 5 |-> IF i - from + 1 \in DOMAIN piece THEN piece[i - from + 1] ELSE sbuf[i]]

ServerHeader ==
  /\ server = "hdr"
  /\ \/ \E k \in Pieces(up, 4) :
          /\ sbuf' = Overwritten(1, SubSeq(up, 1, k))
          /\ up' = Skip(up, k)
          /\ LET length == 256 * sbuf'[1] + sbuf'[2]
                 cmdno == sbuf'[3]
             IN  IF cmdno \notin 1 .. 3 \/ length > 1 THEN Close
                 ELSE /\ server' = IF length > 0 THEN "body" ELSE "answer"
                      /\ UNCHANGED hung
     \/ Ended /\ Close /\ UNCHANGED <<sbuf, up>>
  /\ UNCHANGED <<taken, client_vars, broken, down>>

ServerBody ==
  /\ server = "body"
  /\ \/ /\ up # <<>>
        /\ sbuf' = Overwritten(5, SubSeq(up, 1, 1))
        /\ up' = Tail(up) /\ server' = "answer" /\ UNCHANGED hung
     \/ Ended /\ Close /\ UNCHANGED <<sbuf, up>>
  /\ UNCHANGED <<taken, client_vars, broken, down>>

(* The words are out of the log before the write, which may fail, or seem  *)
(* to work, when there is nobody to get them.                              *)
ServerAnswer ==
  /\ server = "answer"
  /\ IF sbuf[3] # 3 \/ sbuf[5] # 0
       THEN Close /\ UNCHANGED <<taken, down>>
       ELSE \E n \in 0 .. Least(MaxTake, MaxTaken - taken) :
              /\ taken' = taken + n
              /\ IF client # "off" /\ ~broken
                   THEN /\ down' = down \o Header(n) \o Words(taken + 1, n)
                        /\ server' = "hdr" /\ UNCHANGED hung
                   ELSE /\ Close \/ (server' = "hdr" /\ UNCHANGED hung)
                        /\ UNCHANGED down
  /\ UNCHANGED <<sbuf, client_vars, broken, up>>

(* The connection is reset: what was under way is lost.                    *)
Reset ==
  /\ client # "off" /\ ~broken
  /\ broken' = TRUE /\ up' = <<>> /\ down' = <<>>
  /\ UNCHANGED <<client_vars, server_vars, hung>>

-----------------------------------------------------------------------------
ClientStep == ClientSend \/ ClientHeader \/ ClientData
ServerStep == ServerHeader \/ ServerBody \/ ServerAnswer

EthNext == Connect \/ ClientStep \/ Kill \/ ServerStep \/ Reset

(* Both programs run; nobody has to start, kill or cut off a client.       *)
EthFairness == WF_ethvars(ClientStep) /\ WF_ethvars(ServerStep)

EthSpec == EthInit /\ [][EthNext]_ethvars /\ EthFairness

-----------------------------------------------------------------------------
(* Properties.                                                             *)

Bytes == [word : 0 .. MaxTaken, byte : Nat]

EthTypeOK ==
  /\ client \in {"off", "send", "hdr", "data"}
  /\ server \in {"accept", "hdr", "body", "answer"}
  /\ {hung, broken, torn} \subseteq BOOLEAN
  /\ up \in Seq(0 .. 3) /\ down \in Seq(Bytes)
  /\ sbuf \in [1 .. 5 -> 0 .. 3] /\ taken \in 0 .. MaxTaken
  /\ log_cnt \in 0 .. MaxTake /\ len \in 0 .. log_cnt * WordLen
  /\ words \in [1 .. MaxTake * WordLen -> Bytes]
  /\ file \in Seq(0 .. MaxTaken) /\ start \in 0 .. MaxTaken

(* What the client puts into its file are the words taken out of the log   *)
(* since it connected, each once and in order: answers that come in pieces *)
(* are put together again, as long as no piece ends inside a word.         *)
FileRight == ~torn => file = [i \in 1 .. Len(file) |-> start + i]

(* However the commands and answers are cut, client and server never wait  *)
(* for each other for ever: each request is answered, or the connection    *)
(* ends for one of them; and server_loop "executes until an error is       *)
(* detected or until the client disconnect": a client that has gone does   *)
(* not keep the server from the next one.                                  *)
Answered ==
  /\ client \in {"hdr", "data"} ~> (client \in {"send", "off"} \/ hung \/ broken)
  /\ (client = "off") ~> (server = "accept" \/ client # "off")

=============================================================================
