---------------------------- MODULE HttpRangeSource ---------------------------
(***************************************************************************)
(* RemoteHttpSource of raster/http_range.rs with its HttpTransport and     *)
(* ByteCache: one opener probes the server, then threads read byte ranges, *)
(* through a block cache they share or directly.  A request is retried     *)
(* after a transient error; its response is validated before use.          *)
(*                                                                         *)
(* Bytes are told apart by their place in the file: a buffer is where its  *)
(* first byte comes from and how many there are.  The server is external:  *)
(* it may fail, ignore the range, answer for other bytes, announce another *)
(* file size, or send a body of the wrong length.                          *)
(***************************************************************************)
EXTENDS Integers, FiniteSets, TLAPS

CONSTANTS Readers,        \* prefetch and decode threads
          Opener,         \* the thread inside RemoteHttpSource::open
          FileSize,       \* bytes of the file on the server
          BlockSize,      \* DEFAULT_BLOCK_SIZE
          MaxRetries,     \* max_retries
          MaxLength,      \* longest read considered
          NoCall

\* What an instance has to satisfy.
SourceAssumption ==
    /\ Opener \notin Readers
    /\ FileSize \in Nat \ {0}
    /\ BlockSize \in Nat \ {0}
    /\ MaxRetries \in Nat
    /\ MaxLength \in Nat

Callers == Readers \cup {Opener}

VARIABLES source,     \* opening, open or failed
          complete,   \* the cache holds the whole file
          totalSize,
          blocks,     \* the cached blocks: index -> buffer
          pc,         \* where each thread is
          call,       \* the call it is in
          attempt,    \* failed attempts of its request
          buffer      \* what it has fetched or returns

vars == <<source, complete, totalSize, blocks, pc, call, attempt, buffer>>

Buffer(at, len) == [at |-> at, len |-> len]
Empty == Buffer(0, 0)

Calls == [kind : {"read", "exact"}, offset : 0 .. FileSize + 1, len : 0 .. MaxLength]
            \cup [kind : {"fetch"}, offset : 0 .. FileSize, len : 1 .. MaxLength]

Least(a, b) == IF a <= b THEN a ELSE b

Init ==
    /\ source = "opening"
    /\ complete = FALSE
    /\ totalSize = 0
    /\ blocks = [b \in {} |-> Empty]
    /\ pc = [t \in Callers |-> IF t = Opener THEN "request" ELSE "idle"]
    /\ call = [t \in Callers |-> IF t = Opener THEN [kind |-> "probe", offset |-> 0, len |-> BlockSize]
                                 ELSE NoCall]
    /\ attempt = [t \in Callers |-> 0]
    /\ buffer = [t \in Callers |-> Empty]

-----------------------------------------------------------------------------
(* ByteCache: the whole file, or blocks of it by their index.               *)

new_with_initial_block(data) == [b \in {0} |-> data]

get_block(b) == IF b \in DOMAIN blocks THEN {blocks[b]} ELSE {}

\* What the map holds under b when data is offered: the block of a thread that
\* was faster, else data.
insert_block(b, data) == IF get_block(b) # {} THEN blocks[b] ELSE data

copy_from_complete(offset, len) ==
    IF offset >= totalSize \/ len = 0 THEN Empty
    ELSE Buffer(offset, Least(len, totalSize - offset))

-----------------------------------------------------------------------------
(* The bytes a call asks the server for.                                    *)

\* read_range_into clips a read to the file.
Clipped(c) == Least(c.len, totalSize - c.offset)

BlockOf(c) == c.offset \div BlockSize
BlockStart(c) == BlockOf(c) * BlockSize
InBlock(c) == c.offset - BlockStart(c)
CrossesBlocks(c) == Clipped(c) > BlockSize - InBlock(c)

\* A read inside one block fetches the block; every other request is exact.
ByBlock(c) == c.kind \in {"read", "exact"} /\ ~CrossesBlocks(c)

FirstByte(c) == IF ByBlock(c) THEN BlockStart(c) ELSE c.offset

LastByte(c) ==
    CASE c.kind = "fetch" -> c.offset + c.len - 1
      [] ByBlock(c) -> Least(BlockStart(c) + BlockSize, totalSize) - 1
      [] OTHER -> c.offset + Clipped(c) - 1

-----------------------------------------------------------------------------
(* execute_request and the validation of the response.                      *)

\* The server's answers to a request for first .. last: headers and body length.
\* Right, with one fault, or the whole file because the range is ignored, with or
\* without (total 0) a Content-Length.
Reply(status, first, last, total, len) ==
    [status |-> status, first |-> first, last |-> last, total |-> total, len |-> len]

Replies(first, last) ==
    LET n == last - first + 1
        right == Reply(206, first, last, FileSize, n)
        whole == Reply(200, 0, FileSize - 1, FileSize, FileSize)
    IN  {right,
         [right EXCEPT !.first = first + 1],
         [right EXCEPT !.last = last + 1],
         [right EXCEPT !.total = FileSize + 1],
         [right EXCEPT !.len = n - 1],
         [right EXCEPT !.len = n + 2],
         whole,
         [whole EXCEPT !.len = FileSize - 1],
         [whole EXCEPT !.len = FileSize - 1, !.total = 0]}

\* Wrong: a short body is accepted.
ValidRangeShort(r, first, last, total) ==
    /\ r.status = 206
    /\ r.first = first /\ r.last = last /\ r.total = total
    /\ r.len <= last - first + 1

\* validate_range_response after the headers; one byte too many is read at most.
ValidRange(r, first, last, total) ==
    /\ r.status = 206
    /\ r.first <= r.last /\ r.last < r.total
    /\ r.first = first /\ r.last = last /\ r.total = total
    /\ Least(r.len, last - first + 2) = last - first + 1

\* Wrong: the count starts again instead of giving up.
RetriesForEver(t) ==
    attempt' = [attempt EXCEPT ![t] = IF @ < MaxRetries THEN @ + 1 ELSE 0]

\* Transient errors back off and try again, up to MaxRetries times.
Retries(t) ==
    /\ attempt[t] < MaxRetries
    /\ attempt' = [attempt EXCEPT ![t] = @ + 1]

\* The call ends with an error.
Fails(t) ==
    /\ pc' = [pc EXCEPT ![t] = "error"]
    /\ attempt' = [attempt EXCEPT ![t] = 0]
    /\ UNCHANGED buffer

\* An attempt fails: transiently with a retry left, or for good.
AttemptFails(t) ==
    /\ pc[t] = "request"
    /\ \/ Retries(t) /\ UNCHANGED <<pc, source, buffer>>
       \/ Fails(t) /\ source' = IF t = Opener THEN "failed" ELSE source
    /\ UNCHANGED <<complete, totalSize, blocks, call>>

\* HttpTransport::fetch_range with the reply of the last attempt.
Responds(t) ==
    /\ pc[t] = "request"
    /\ t # Opener
    /\ \E r \in Replies(FirstByte(call[t]), LastByte(call[t])) :
          \/ /\ ValidRange(r, FirstByte(call[t]), LastByte(call[t]), totalSize)
             /\ pc' = [pc EXCEPT ![t] = IF ByBlock(call[t]) THEN "insert" ELSE "ok"]
             /\ buffer' = [buffer EXCEPT ![t] = Buffer(r.first, r.len)]
             /\ attempt' = [attempt EXCEPT ![t] = 0]
          \/ /\ ~ValidRange(r, FirstByte(call[t]), LastByte(call[t]), totalSize)
             /\ Fails(t)
    /\ UNCHANGED <<source, complete, totalSize, blocks, call>>

-----------------------------------------------------------------------------
(* RemoteHttpSource::open.                                                  *)

\* The last byte the probe expects: the server names the total.
ProbeEnd(r) == Least(BlockSize, r.total) - 1

ProbePartial(r) ==
    /\ ValidRange(r, 0, ProbeEnd(r), r.total)
    /\ source' = "open"
    /\ totalSize' = r.total
    /\ blocks' = new_with_initial_block(Buffer(0, r.len))
    /\ UNCHANGED complete

\* A 200 response carries the whole file, if its length is the one announced or
\* none is.
IsWhole(r) == r.status = 200 /\ (r.total = 0 \/ r.len = r.total)

ProbeComplete(r) ==
    /\ IsWhole(r)
    /\ source' = "open"
    /\ totalSize' = r.len
    /\ complete' = TRUE
    /\ UNCHANGED blocks

Probe ==
    /\ pc[Opener] = "request"
    /\ \E r \in Replies(0, Least(BlockSize, FileSize) - 1) :
          \/ ProbePartial(r)
          \/ ProbeComplete(r)
          \/ /\ ~ValidRange(r, 0, ProbeEnd(r), r.total)
             /\ ~IsWhole(r)
             /\ source' = "failed"
             /\ UNCHANGED <<complete, totalSize, blocks>>
    /\ pc' = [pc EXCEPT ![Opener] = "idle"]
    /\ attempt' = [attempt EXCEPT ![Opener] = 0]
    /\ UNCHANGED <<call, buffer>>

-----------------------------------------------------------------------------
(* read_range_into, read_exact_range and fetch_range.                       *)

OutsideFile(c) ==
    \/ c.kind = "exact" /\ (c.offset > totalSize \/ c.len > totalSize - c.offset)
    \/ c.kind = "fetch" /\ c.offset + c.len > totalSize

\* The part of a block a read wants.
FromBlock(b, c) ==
    IF b.len <= InBlock(c) THEN Empty
    ELSE Buffer(b.at + InBlock(c), Least(b.len - InBlock(c), Clipped(c)))

\* The bytes are there; read_exact_range turns a short read into an error.
Served(t, c, b) ==
    IF c.kind = "exact" /\ b.len # c.len
    THEN Fails(t)
    ELSE /\ pc' = [pc EXCEPT ![t] = "ok"]
         /\ buffer' = [buffer EXCEPT ![t] = b]
         /\ UNCHANGED attempt

\* The block cache, looked up before any request.
IsCached(c) ==
    /\ ByBlock(c)
    /\ \E b \in get_block(BlockOf(c)) : InBlock(c) < b.len

\* A call up to its answer from memory, or to its first request.
Enter(t) ==
    /\ source = "open"
    /\ t \in Readers
    /\ pc[t] = "idle"
    /\ \E c \in Calls :
          /\ call' = [call EXCEPT ![t] = c]
          /\ CASE OutsideFile(c) -> Fails(t)
               [] ~OutsideFile(c) /\ (c.len = 0 \/ c.offset >= totalSize) -> Served(t, c, Empty)
               [] OTHER ->
                    \/ complete /\ Served(t, c, copy_from_complete(c.offset, c.len))
                    \/ ~complete /\ IsCached(c) /\ Served(t, c, FromBlock(blocks[BlockOf(c)], c))
                    \/ /\ ~complete /\ ~IsCached(c)
                       /\ pc' = [pc EXCEPT ![t] = "request"]
                       /\ UNCHANGED <<attempt, buffer>>
    /\ UNCHANGED <<source, complete, totalSize, blocks>>

Insert(t) ==
    /\ pc[t] = "insert"
    /\ LET b == BlockOf(call[t])
           kept == insert_block(b, buffer[t])
       IN  /\ blocks' = [i \in DOMAIN blocks \cup {b} |-> IF i = b THEN kept ELSE blocks[i]]
           /\ Served(t, call[t], FromBlock(kept, call[t]))
    /\ UNCHANGED <<source, complete, totalSize, call>>

\* The caller has its answer.
Return(t) ==
    /\ pc[t] \in {"ok", "error"}
    /\ pc' = [pc EXCEPT ![t] = "idle"]
    /\ call' = [call EXCEPT ![t] = NoCall]
    /\ buffer' = [buffer EXCEPT ![t] = Empty]
    /\ UNCHANGED <<source, complete, totalSize, blocks, attempt>>

Step(t) == AttemptFails(t) \/ Responds(t) \/ Insert(t) \/ Return(t)

\* Open failed: there is no source to read from.
Refused == source = "failed" /\ pc[Opener] = "idle" /\ UNCHANGED vars

Next == Probe \/ (\E t \in Callers : Step(t) \/ Enter(t)) \/ Refused

\* A request ends by its time-outs, and a thread in a call runs on.
Fairness == WF_vars(Probe) /\ \A t \in Callers : WF_vars(Step(t))

Spec == Init /\ [][Next]_vars /\ Fairness

-----------------------------------------------------------------------------
(* Properties.                                                              *)

Buffers == [at : 0 .. FileSize, len : 0 .. FileSize]

\* Every variable keeps its type.
TypeOK ==
    /\ source \in {"opening", "open", "failed"}
    /\ complete \in BOOLEAN
    /\ totalSize \in 0 .. FileSize + 1
    /\ \A b \in DOMAIN blocks : b \in 0 .. FileSize \div BlockSize /\ blocks[b] \in Buffers
    /\ pc \in [Callers -> {"idle", "request", "insert", "ok", "error"}]
    /\ attempt \in [Callers -> 0 .. MaxRetries]
    /\ buffer \in [Callers -> Buffers]

\* The documented contracts: read_range_into is short only at the end of the file,
\* read_exact_range and fetch_range never are, and the bytes are those asked for,
\* whichever thread fetched the block and whatever the server sent.
ReadsExact ==
    \A t \in Readers : pc[t] = "ok" =>
        LET c == call[t]
            wanted == IF c.kind = "read" /\ c.offset + c.len > totalSize
                      THEN IF c.offset >= totalSize THEN 0 ELSE totalSize - c.offset
                      ELSE c.len
        IN  buffer[t].len = wanted /\ (wanted > 0 => buffer[t].at = c.offset)

\* Every call returns, however often the server fails transiently.
CallsEnd == \A t \in Callers : pc[t] \in {"request", "insert"} ~> pc[t] \in {"idle", "ok", "error"}

-----------------------------------------------------------------------------
(* The proofs: whatever the server answers, for every file, block size,     *)
(* number of retries and of threads.                                        *)

\* The block of the file with index b.
BlockAt(b) == Buffer(b * BlockSize, Least(b * BlockSize + BlockSize, totalSize) - b * BlockSize)

\* A call that passed the checks at its entry.
Asked(c) == c \in Calls /\ ~OutsideFile(c) /\ c.len > 0 /\ c.offset < totalSize

\* What a call has to return.
WantedOf(c) ==
    IF c.kind = "read" /\ c.offset + c.len > totalSize
    THEN IF c.offset >= totalSize THEN 0 ELSE totalSize - c.offset
    ELSE c.len

Right(c, b) == b.len = WantedOf(c) /\ (WantedOf(c) > 0 => b.at = c.offset)

SourceTypes ==
    /\ source \in {"opening", "open", "failed"}
    /\ totalSize \in Nat
    /\ pc \in [Callers -> {"idle", "request", "insert", "ok", "error"}]
    /\ DOMAIN call = Callers /\ DOMAIN buffer = Callers

\* The probe alone decides the size of the file, before anyone reads.
Opening ==
    /\ pc[Opener] \in {"idle", "request", "error"}
    /\ source = "opening" <=> pc[Opener] = "request"
    /\ source = "opening" => DOMAIN blocks = {}
    /\ \A t \in Readers : pc[t] # "idle" => source = "open"

\* A cached block is the block of the file, whole.
CacheRight == \A b \in DOMAIN blocks : b \in Nat /\ blocks[b] = BlockAt(b)

CallsRight ==
    \A t \in Readers :
        /\ pc[t] \in {"request", "insert"} => Asked(call[t])
        /\ pc[t] = "insert" => ByBlock(call[t]) /\ buffer[t] = BlockAt(BlockOf(call[t]))
        /\ pc[t] = "ok" => Right(call[t], buffer[t])

\* The inductive invariant.
SourceInv == SourceTypes /\ Opening /\ CacheRight /\ CallsRight

-----------------------------------------------------------------------------
\* A position lies in its block.
LEMMA BlockBounds ==
  ASSUME SourceAssumption, NEW n \in Nat
  PROVE  /\ n \div BlockSize \in Nat
         /\ (n \div BlockSize) * BlockSize \in Nat
         /\ (n \div BlockSize) * BlockSize <= n
         /\ n < (n \div BlockSize) * BlockSize + BlockSize
<1>1. BlockSize \in Nat \ {0}
  BY DEF SourceAssumption
<1>2. PICK q \in Int : q = n \div BlockSize
  BY <1>1
<1>3. q * BlockSize <= n /\ n < q * BlockSize + BlockSize
  BY <1>1, <1>2
<1>4. q >= 0
  BY <1>1, <1>2
<1>5. q * BlockSize \in Nat
  BY <1>1, <1>4
<1> QED BY <1>2, <1>3, <1>4, <1>5

\* The arguments of a call are numbers.
LEMMA CallNumbers ==
  ASSUME SourceAssumption, NEW c \in Calls
  PROVE  /\ c.offset \in Nat /\ c.len \in Nat
         /\ c.kind \in {"read", "exact", "fetch"}
         /\ c.kind = "fetch" => c.len > 0
BY DEF Calls, SourceAssumption

\* A valid response carries exactly the bytes asked for (validate_range_response).
LEMMA ValidIsExact ==
  ASSUME NEW first \in Int, NEW last \in Int, NEW total, NEW r, r.len \in Int,
         ValidRange(r, first, last, total)
  PROVE  r.first = first /\ r.len = last - first + 1
BY DEF ValidRange, Least

\* Bodies have a length.
LEMMA ReplyLength ==
  ASSUME SourceAssumption, NEW first \in Int, NEW last \in Int, NEW r \in Replies(first, last)
  PROVE  /\ r.len \in Int /\ r.total \in Nat
         /\ r.status = 200 => r.len \in Nat
<1> DEFINE n == last - first + 1
           right == Reply(206, first, last, FileSize, n)
           whole == Reply(200, 0, FileSize - 1, FileSize, FileSize)
<1>1. /\ n \in Int /\ FileSize \in Nat \ {0}
      /\ right = Reply(206, first, last, FileSize, n)
      /\ whole = Reply(200, 0, FileSize - 1, FileSize, FileSize)
  BY DEF SourceAssumption
<1>2. \/ r \in {right, [right EXCEPT !.first = first + 1], [right EXCEPT !.last = last + 1],
               [right EXCEPT !.total = FileSize + 1]}
      \/ r \in {[right EXCEPT !.len = n - 1], [right EXCEPT !.len = n + 2]}
      \/ r \in {whole, [whole EXCEPT !.len = FileSize - 1],
               [whole EXCEPT !.len = FileSize - 1, !.total = 0]}
  <2> HIDE DEF right, whole, n
  <2> QED BY DEF Replies, right, whole, n
<1> HIDE DEF right, whole, n
<1>3. CASE r \in {right, [right EXCEPT !.first = first + 1], [right EXCEPT !.last = last + 1],
                 [right EXCEPT !.total = FileSize + 1]}
  BY <1>1, <1>3 DEF Reply
<1>4. CASE r \in {[right EXCEPT !.len = n - 1], [right EXCEPT !.len = n + 2]}
  BY <1>1, <1>4 DEF Reply
<1>5. CASE r \in {whole, [whole EXCEPT !.len = FileSize - 1],
                 [whole EXCEPT !.len = FileSize - 1, !.total = 0]}
  <2>1. /\ whole.len = FileSize /\ whole.total = FileSize
        /\ whole = [status |-> 200, first |-> 0, last |-> FileSize - 1, total |-> FileSize,
                   len |-> FileSize]
    BY <1>1 DEF Reply
  <2>2. r.len \in {FileSize, FileSize - 1}
    BY <1>5, <2>1
  <2>3. r.total \in {FileSize, 0}
    BY <1>5, <2>1
  <2> QED BY <1>1, <2>2, <2>3
<1> QED BY <1>2, <1>3, <1>4, <1>5

\* A read inside one block finds its bytes in that block.
LEMMA InsideBlock ==
  ASSUME SourceAssumption, totalSize \in Nat, NEW c, Asked(c), ByBlock(c)
  PROVE  Right(c, FromBlock(BlockAt(BlockOf(c)), c))
<1> DEFINE S == BlockStart(c)
<1>1. c.offset \in Nat /\ c.len \in Nat /\ c.kind \in {"read", "exact"}
  BY CallNumbers DEF Asked, ByBlock
<1>2. S \in Nat /\ S <= c.offset /\ c.offset < S + BlockSize /\ BlockSize \in Nat \ {0}
  BY <1>1, BlockBounds DEF BlockStart, BlockOf, SourceAssumption
<1>3. BlockAt(BlockOf(c)) = Buffer(S, Least(S + BlockSize, totalSize) - S)
  BY DEF BlockAt, BlockStart
<1>4. InBlock(c) = c.offset - S
  BY DEF InBlock
<1>5. Clipped(c) <= BlockSize - InBlock(c)
  BY <1>1, <1>2, <1>4 DEF ByBlock, CrossesBlocks, Clipped, Least
<1> HIDE DEF S
<1>6. /\ c.len > 0 /\ c.offset < totalSize
      /\ c.kind = "exact" => c.offset <= totalSize /\ c.len <= totalSize - c.offset
  BY <1>1 DEF Asked, OutsideFile
<1>7. FromBlock(BlockAt(BlockOf(c)), c) = Buffer(c.offset, Clipped(c))
  BY <1>1, <1>2, <1>3, <1>4, <1>5, <1>6 DEF FromBlock, Buffer, Clipped, Least
<1>8. Clipped(c) = WantedOf(c)
  BY <1>1, <1>6 DEF Clipped, Least, WantedOf
<1> QED BY <1>7, <1>8 DEF Right, Buffer

\* A read that is not served by a block asks for exactly its bytes.
LEMMA DirectRequest ==
  ASSUME SourceAssumption, totalSize \in Nat, NEW c, Asked(c), ~ByBlock(c)
  PROVE  /\ FirstByte(c) = c.offset /\ LastByte(c) \in Int
         /\ LastByte(c) - FirstByte(c) + 1 = WantedOf(c)
<1>1. c.offset \in Nat /\ c.len \in Nat /\ c.kind \in {"read", "exact", "fetch"}
  BY CallNumbers DEF Asked
<1>2. /\ c.len > 0 /\ c.offset < totalSize
      /\ c.kind = "exact" => c.offset <= totalSize /\ c.len <= totalSize - c.offset
      /\ c.kind = "fetch" => c.offset + c.len <= totalSize
  BY <1>1 DEF Asked, OutsideFile
<1>3. FirstByte(c) = c.offset
  BY DEF FirstByte
<1>4. CASE c.kind = "fetch"
  BY <1>1, <1>2, <1>3, <1>4 DEF LastByte, WantedOf
<1>5. CASE c.kind # "fetch"
  <2>1. LastByte(c) = c.offset + Clipped(c) - 1
    BY <1>5 DEF LastByte
  <2>2. Clipped(c) = WantedOf(c) /\ Clipped(c) \in Int
    BY <1>1, <1>2, <1>5 DEF Clipped, Least, WantedOf
  <2> QED BY <1>1, <1>3, <2>1, <2>2
<1> QED BY <1>4, <1>5

\* A request for a block asks for the whole block.
LEMMA BlockRequest ==
  ASSUME SourceAssumption, totalSize \in Nat, NEW c, Asked(c), ByBlock(c)
  PROVE  /\ FirstByte(c) \in Int /\ LastByte(c) \in Int
         /\ BlockAt(BlockOf(c)) = Buffer(FirstByte(c), LastByte(c) - FirstByte(c) + 1)
<1>1. c.offset \in Nat /\ c.kind \in {"read", "exact"}
  BY CallNumbers DEF Asked, ByBlock
<1>2. BlockStart(c) \in Nat /\ BlockSize \in Nat
  BY <1>1, BlockBounds DEF BlockStart, BlockOf, SourceAssumption
<1>3. /\ FirstByte(c) = BlockStart(c)
      /\ LastByte(c) = Least(BlockStart(c) + BlockSize, totalSize) - 1
  BY <1>1 DEF FirstByte, LastByte
<1>4. BlockAt(BlockOf(c)) = Buffer(BlockStart(c), Least(BlockStart(c) + BlockSize, totalSize) - BlockStart(c))
  BY DEF BlockAt, BlockStart
<1>5. Least(BlockStart(c) + BlockSize, totalSize) \in Int
  BY <1>2 DEF Least
<1> QED BY <1>2, <1>3, <1>4, <1>5

-----------------------------------------------------------------------------
(* One lemma per action.                                                    *)

\* Before the probe nothing is cached and nobody reads.
LEMMA InitSource == ASSUME SourceAssumption, Init PROVE SourceInv
<1>1. Opener \in Callers /\ Readers \subseteq Callers /\ Opener \notin Readers
  BY DEF Callers, SourceAssumption
<1>2. SourceTypes
  BY <1>1 DEF Init, SourceTypes
<1>3. Opening
  BY <1>1 DEF Init, Opening
<1>4. CacheRight
  BY DEF Init, CacheRight
<1>5. CallsRight
  BY <1>1 DEF Init, CallsRight
<1> QED BY <1>2, <1>3, <1>4, <1>5 DEF SourceInv

\* The probe: the first block, or the whole file, and the size that goes with it.
LEMMA StepProbe == ASSUME SourceAssumption, SourceInv, Probe PROVE SourceInv'
<1>1. /\ Opener \in Callers /\ Readers \subseteq Callers /\ Opener \notin Readers
      /\ FileSize \in Nat \ {0} /\ BlockSize \in Nat \ {0}
  BY DEF Callers, SourceAssumption
<1>2. source = "opening" /\ pc' = [pc EXCEPT ![Opener] = "idle"] /\ UNCHANGED <<call, buffer>>
  BY DEF Probe, SourceInv, Opening
<1>3. PICK r \in Replies(0, Least(BlockSize, FileSize) - 1) :
          \/ ProbePartial(r)
          \/ ProbeComplete(r)
          \/ source' = "failed" /\ UNCHANGED <<complete, totalSize, blocks>>
  BY DEF Probe
<1>4. r.len \in Int /\ r.total \in Nat /\ (r.status = 200 => r.len \in Nat)
  <2>1. Least(BlockSize, FileSize) - 1 \in Int
    BY <1>1 DEF Least
  <2> QED BY <2>1, ReplyLength
<1>5. \A t \in Readers : pc[t] = "idle" /\ pc'[t] = "idle"
  BY <1>1, <1>2 DEF SourceInv, SourceTypes, Opening
<1>6. CallsRight'
  BY <1>5 DEF CallsRight
<1>7. DOMAIN call' = Callers /\ DOMAIN buffer' = Callers
      /\ pc' \in [Callers -> {"idle", "request", "insert", "ok", "error"}]
  BY <1>2 DEF SourceInv, SourceTypes
<1>8. pc'[Opener] = "idle"
  BY <1>1, <1>2 DEF SourceInv, SourceTypes
<1>9. source' \in {"open", "failed"}
  BY <1>3 DEF ProbePartial, ProbeComplete
<1>10. Opening'
  BY <1>5, <1>8, <1>9 DEF Opening
<1>11. totalSize' \in Nat
  <2>1. CASE ProbePartial(r)
    BY <1>4, <2>1 DEF ProbePartial
  <2>2. CASE ProbeComplete(r)
    BY <1>4, <2>2 DEF ProbeComplete, IsWhole
  <2>3. CASE UNCHANGED totalSize
    BY <2>3 DEF SourceInv, SourceTypes
  <2> QED BY <1>3, <2>1, <2>2, <2>3
<1>12. CacheRight'
  <2>1. CASE ProbePartial(r)
    <3>1. /\ ProbeEnd(r) \in Int
          /\ ProbeEnd(r) = Least(BlockSize, r.total) - 1
      BY <1>1, <1>4 DEF ProbeEnd, Least
    <3>2. r.len = Least(BlockSize, r.total)
      <4>1. ValidRange(r, 0, ProbeEnd(r), r.total)
        BY <2>1 DEF ProbePartial
      <4>2. r.len = ProbeEnd(r) - 0 + 1
        BY <1>4, <3>1, <4>1, ValidIsExact
      <4> QED BY <1>1, <1>4, <3>1, <4>2 DEF Least
    <3>3. blocks' = [b \in {0} |-> Buffer(0, r.len)] /\ totalSize' = r.total
      BY <2>1 DEF ProbePartial, new_with_initial_block
    <3>4. 0 * BlockSize = 0 /\ 0 + BlockSize = BlockSize
      BY <1>1
    <3>5. BlockAt(0)' = Buffer(0, Least(BlockSize, r.total) - 0)
      BY <3>3, <3>4 DEF BlockAt
    <3>6. r.len = Least(BlockSize, r.total) - 0
      BY <1>1, <1>4, <3>2 DEF Least
    <3> QED BY <3>3, <3>5, <3>6 DEF CacheRight
  <2>2. CASE UNCHANGED blocks
    <3>1. DOMAIN blocks = {}
      BY <1>2 DEF SourceInv, Opening
    <3> QED BY <2>2, <3>1 DEF CacheRight
  <2> QED BY <1>3, <2>1, <2>2 DEF ProbeComplete
<1> QED BY <1>6, <1>7, <1>9, <1>10, <1>11, <1>12 DEF SourceInv, SourceTypes

\* What a thread has stays right when only another thread moves.
LEMMA OtherCalls ==
  ASSUME SourceInv, NEW t \in Readers, totalSize' = totalSize,
         pc'[t] = pc[t], call'[t] = call[t], buffer'[t] = buffer[t]
  PROVE  /\ pc'[t] \in {"request", "insert"} => Asked(call[t])'
         /\ pc'[t] = "insert" => (ByBlock(call[t]) /\ buffer[t] = BlockAt(BlockOf(call[t])))'
         /\ pc'[t] = "ok" => Right(call[t], buffer[t])'
<1> USE DEF SourceInv, CallsRight
<1>1. pc'[t] \in {"request", "insert"} => Asked(call[t])'
  BY DEF Asked, OutsideFile
<1>2. pc'[t] = "insert" => (ByBlock(call[t]) /\ buffer[t] = BlockAt(BlockOf(call[t])))'
  BY DEF ByBlock, CrossesBlocks, Clipped, InBlock, BlockStart, BlockOf, BlockAt
<1>3. pc'[t] = "ok" => Right(call[t], buffer[t])'
  BY DEF Right, WantedOf
<1> QED BY <1>1, <1>2, <1>3

\* What a call means depends on the size of the file only.
LEMMA SizeDecides ==
  ASSUME totalSize' = totalSize, UNCHANGED call, NEW t
  PROVE  /\ Asked(call[t])' <=> Asked(call[t])
         /\ ByBlock(call[t])' <=> ByBlock(call[t])
         /\ BlockAt(BlockOf(call[t]))' = BlockAt(BlockOf(call[t]))
         /\ WantedOf(call[t])' = WantedOf(call[t])
BY DEF Asked, OutsideFile, ByBlock, CrossesBlocks, Clipped, InBlock, BlockStart, BlockOf,
       BlockAt, WantedOf

\* Cached blocks stay right while neither they nor the size change.
LEMMA CacheKept ==
  ASSUME SourceInv, UNCHANGED <<totalSize, blocks>>
  PROVE  CacheRight'
BY DEF SourceInv, CacheRight, BlockAt

\* Nothing of interest changes.
LEMMA SourceStutters ==
  ASSUME SourceInv, UNCHANGED <<source, totalSize, blocks, pc, call, buffer>>
  PROVE  SourceInv'
<1>1. SourceTypes' /\ Opening'
  BY DEF SourceInv, SourceTypes, Opening
<1>2. CallsRight'
  BY OtherCalls DEF CallsRight
<1> QED BY <1>1, <1>2, CacheKept DEF SourceInv

\* A thread ends its call with what Served makes of the right bytes.
LEMMA ServedRight ==
  ASSUME NEW t \in Readers, NEW c, NEW b, SourceTypes, Right(c, b), Served(t, c, b),
         Readers \subseteq Callers
  PROVE  /\ pc' = [pc EXCEPT ![t] = pc'[t]] /\ pc'[t] \in {"ok", "error"}
         /\ \A u \in Callers : u # t => buffer'[u] = buffer[u]
         /\ DOMAIN buffer' = Callers
         /\ pc'[t] = "ok" => buffer'[t] = b
BY DEF Served, Fails, SourceTypes

\* What a thread's own call has to satisfy after its step.
OwnRight(t) ==
    /\ pc[t] \in {"request", "insert"} => Asked(call[t])
    /\ pc[t] = "insert" => ByBlock(call[t]) /\ buffer[t] = BlockAt(BlockOf(call[t]))
    /\ pc[t] = "ok" => Right(call[t], buffer[t])

\* A reader's step: its own call and the cache decide.
LEMMA ReaderStep ==
  ASSUME SourceAssumption, SourceInv, NEW t \in Readers, source = "open",
         UNCHANGED <<source, totalSize>>, CacheRight', OwnRight(t)',
         NEW at \in {"idle", "request", "insert", "ok", "error"},
         pc' = [pc EXCEPT ![t] = at],
         DOMAIN call' = Callers, DOMAIN buffer' = Callers,
         \A u \in Callers : u # t => call'[u] = call[u] /\ buffer'[u] = buffer[u]
  PROVE  SourceInv'
<1>1. Opener \in Callers /\ Readers \subseteq Callers /\ Opener \notin Readers
  BY DEF Callers, SourceAssumption
<1>2. SourceTypes'
  BY DEF SourceInv, SourceTypes
<1>3. \A u \in Callers : u # t => pc'[u] = pc[u]
  BY DEF SourceInv, SourceTypes
<1>4. Opening'
  BY <1>1, <1>3 DEF SourceInv, Opening
<1>5. ASSUME NEW u \in Readers PROVE OwnRight(u)'
  <2>1. CASE u = t
    BY <2>1
  <2>2. CASE u # t
    <3>1. pc'[u] = pc[u] /\ call'[u] = call[u] /\ buffer'[u] = buffer[u]
      BY <1>1, <1>3, <2>2
    <3> QED BY <3>1, OtherCalls DEF OwnRight
  <2> QED BY <2>1, <2>2
<1>6. CallsRight'
  BY <1>5 DEF CallsRight, OwnRight
<1> QED BY <1>2, <1>4, <1>6 DEF SourceInv

\* The opener's steps after a failed probe concern no reader.
LEMMA OpenerStep ==
  ASSUME SourceAssumption, SourceInv, UNCHANGED <<totalSize, blocks>>,
         source' \in {"open", "failed"}, source \in {"opening", source'},
         NEW at \in {"idle", "error"}, pc' = [pc EXCEPT ![Opener] = at],
         DOMAIN call' = Callers, DOMAIN buffer' = Callers,
         \A u \in Readers : call'[u] = call[u] /\ buffer'[u] = buffer[u]
  PROVE  SourceInv'
<1>1. Opener \in Callers /\ Readers \subseteq Callers /\ Opener \notin Readers
  BY DEF Callers, SourceAssumption
<1>2. SourceTypes'
  BY DEF SourceInv, SourceTypes
<1>3. pc'[Opener] = at /\ \A u \in Readers : pc'[u] = pc[u]
  BY <1>1 DEF SourceInv, SourceTypes
<1>4. Opening'
  BY <1>1, <1>3 DEF SourceInv, Opening
<1>5. ASSUME NEW u \in Readers PROVE OwnRight(u)'
  BY <1>3, OtherCalls DEF OwnRight
<1>6. CallsRight'
  BY <1>5 DEF CallsRight, OwnRight
<1> QED BY <1>2, <1>4, <1>6, CacheKept DEF SourceInv

\* A failed attempt is retried, or ends the call or the opening with an error.
LEMMA StepAttemptFails ==
  ASSUME SourceAssumption, SourceInv, NEW t \in Callers, AttemptFails(t)
  PROVE  SourceInv'
<1>1. UNCHANGED <<totalSize, blocks, call, buffer>> /\ pc[t] = "request"
  BY DEF AttemptFails, Fails
<1>2. DOMAIN call' = Callers /\ DOMAIN buffer' = Callers
  BY <1>1 DEF SourceInv, SourceTypes
<1>3. CASE UNCHANGED <<pc, source>>
  BY <1>1, <1>3, SourceStutters
<1>4. CASE pc' = [pc EXCEPT ![t] = "error"] /\ source' = IF t = Opener THEN "failed" ELSE source
  <2>1. CASE t = Opener
    <3>1. source = "opening"
      BY <1>1, <2>1 DEF SourceInv, Opening
    <3>2. pc' = [pc EXCEPT ![Opener] = "error"] /\ source' = "failed"
      BY <1>4, <2>1
    <3> QED BY <1>1, <1>2, <3>1, <3>2, OpenerStep
  <2>2. CASE t # Opener
    <3>1. t \in Readers /\ source = "open" /\ UNCHANGED source
      BY <1>1, <1>4, <2>2 DEF Callers, SourceInv, Opening
    <3>2. pc'[t] = "error"
      BY <1>4 DEF SourceInv, SourceTypes
    <3>3. OwnRight(t)'
      BY <3>2 DEF OwnRight
    <3>4. CacheRight'
      BY <1>1, CacheKept
    <3> QED BY <1>1, <1>2, <1>4, <3>1, <3>3, <3>4, ReaderStep
  <2> QED BY <2>1, <2>2
<1> QED BY <1>3, <1>4 DEF AttemptFails, Fails

\* A reader has a reply: the call ends with an error, with its bytes, or with a
\* block to keep.
LEMMA StepResponds ==
  ASSUME SourceAssumption, SourceInv, NEW t \in Callers, Responds(t)
  PROVE  SourceInv'
<1> DEFINE c == call[t]
<1>1. UNCHANGED <<source, totalSize, blocks, call>> /\ pc[t] = "request" /\ t # Opener
  BY DEF Responds
<1>2. t \in Readers /\ source = "open" /\ Asked(c)
  BY <1>1 DEF Callers, SourceInv, Opening, CallsRight
<1>3. DOMAIN call' = Callers /\ DOMAIN buffer = Callers /\ totalSize \in Nat /\ t \in DOMAIN pc
  BY <1>1 DEF SourceInv, SourceTypes
<1>4. CacheRight'
  BY <1>1, CacheKept
<1>5. FirstByte(c) \in Int /\ LastByte(c) \in Int
  <2>1. c.offset \in Nat
    BY <1>2, CallNumbers DEF Asked
  <2>2. CASE ByBlock(c)
    BY <1>2, <1>3, <2>2, BlockRequest
  <2>3. CASE ~ByBlock(c)
    BY <1>2, <1>3, <2>1, <2>3, DirectRequest
  <2> QED BY <2>2, <2>3
<1>6. CASE Fails(t)
  <2>1. pc' = [pc EXCEPT ![t] = "error"] /\ UNCHANGED buffer /\ pc'[t] = "error"
    BY <1>3, <1>6 DEF Fails
  <2>2. OwnRight(t)'
    BY <2>1 DEF OwnRight
  <2>3. DOMAIN buffer' = Callers
    BY <1>3, <2>1
  <2> QED BY <1>1, <1>2, <1>3, <1>4, <2>1, <2>2, <2>3, ReaderStep
<1>7. ASSUME NEW r \in Replies(FirstByte(c), LastByte(c)),
             ValidRange(r, FirstByte(c), LastByte(c), totalSize),
             pc' = [pc EXCEPT ![t] = IF ByBlock(c) THEN "insert" ELSE "ok"],
             buffer' = [buffer EXCEPT ![t] = Buffer(r.first, r.len)]
      PROVE  SourceInv'
  <2>1. r.len \in Int
    BY <1>5, <1>7, ReplyLength
  <2>2. r.first = FirstByte(c) /\ r.len = LastByte(c) - FirstByte(c) + 1
    BY <1>5, <1>7, <2>1, ValidIsExact
  <2>3. buffer'[t] = Buffer(FirstByte(c), LastByte(c) - FirstByte(c) + 1)
    BY <1>3, <1>7, <2>2
  <2>4. DOMAIN buffer' = Callers /\ \A u \in Callers : u # t => buffer'[u] = buffer[u]
    BY <1>3, <1>7
  <2>5. pc'[t] = IF ByBlock(c) THEN "insert" ELSE "ok"
    BY <1>3, <1>7
  <2>6. Asked(c)' /\ (ByBlock(c) <=> ByBlock(c)') /\ BlockAt(BlockOf(c))' = BlockAt(BlockOf(c))
        /\ WantedOf(c)' = WantedOf(c)
    BY <1>1, <1>2, SizeDecides
  <2>7. OwnRight(t)'
    <3>1. CASE ByBlock(c)
      BY <1>2, <1>3, <2>3, <2>5, <2>6, <3>1, BlockRequest DEF OwnRight
    <3>2. CASE ~ByBlock(c)
      <4>1. FirstByte(c) = c.offset /\ LastByte(c) - FirstByte(c) + 1 = WantedOf(c)
        BY <1>2, <1>3, <3>2, DirectRequest
      <4>2. buffer'[t].at = c.offset /\ buffer'[t].len = WantedOf(c)
        BY <2>3, <4>1 DEF Buffer
      <4>3. Right(c, buffer[t])'
        BY <1>1, <2>6, <4>2 DEF Right
      <4> QED BY <2>5, <3>2, <4>3 DEF OwnRight
    <3> QED BY <3>1, <3>2
  <2>8. PICK at \in {"insert", "ok"} : pc' = [pc EXCEPT ![t] = at]
    BY <1>7
  <2> QED BY <1>1, <1>2, <1>3, <1>4, <2>4, <2>7, <2>8, ReaderStep
<1> QED BY <1>6, <1>7 DEF Responds

\* Two threads may have missed the same block: both copies are right.
LEMMA StepInsert ==
  ASSUME SourceAssumption, SourceInv, NEW t \in Callers, Insert(t)
  PROVE  SourceInv'
<1> DEFINE c == call[t]
           b == BlockOf(c)
           kept == insert_block(b, buffer[t])
<1>1. UNCHANGED <<source, totalSize, call>> /\ pc[t] = "insert"
  BY DEF Insert
<1>2. t \in Readers /\ source = "open" /\ Asked(c) /\ ByBlock(c) /\ buffer[t] = BlockAt(b)
  BY <1>1 DEF Callers, SourceInv, Opening, CallsRight
<1>3. DOMAIN call' = Callers /\ totalSize \in Nat /\ t \in DOMAIN pc /\ SourceTypes
      /\ Readers \subseteq Callers
  BY <1>1 DEF SourceInv, SourceTypes, Callers
<1>4. b \in Nat
  BY <1>2, CallNumbers, BlockBounds DEF Asked, BlockOf
<1>5. kept = BlockAt(b)
  BY <1>2 DEF insert_block, get_block, SourceInv, CacheRight
<1>6. /\ blocks' = [j \in DOMAIN blocks \cup {b} |-> IF j = b THEN kept ELSE blocks[j]]
      /\ Served(t, c, FromBlock(kept, c))
  BY DEF Insert
<1>7. Right(c, FromBlock(kept, c))
  BY <1>2, <1>3, <1>5, InsideBlock
<1>8. CacheRight'
  <2>1. \A j : BlockAt(j)' = BlockAt(j)
    BY <1>1 DEF BlockAt
  <2> HIDE DEF b, kept
  <2>2. ASSUME NEW j \in DOMAIN blocks' PROVE j \in Nat /\ blocks'[j] = BlockAt(j)
    BY <1>4, <1>5, <1>6, <2>2 DEF SourceInv, CacheRight
  <2> QED BY <2>1, <2>2 DEF CacheRight
<1> HIDE DEF kept, b
<1>9. /\ pc' = [pc EXCEPT ![t] = pc'[t]] /\ pc'[t] \in {"ok", "error"}
      /\ \A u \in Callers : u # t => buffer'[u] = buffer[u]
      /\ DOMAIN buffer' = Callers
      /\ pc'[t] = "ok" => buffer'[t] = FromBlock(kept, c)
  BY <1>2, <1>3, <1>6, <1>7, ServedRight
<1>10. OwnRight(t)'
  <2>1. WantedOf(call[t])' = WantedOf(call[t]) /\ call'[t] = call[t]
    BY <1>1, SizeDecides
  <2>2. pc'[t] = "ok" => Right(call[t], buffer[t])'
    BY <1>7, <1>9, <2>1 DEF Right
  <2> QED BY <1>9, <2>2 DEF OwnRight
<1>11. PICK at \in {"ok", "error"} : pc' = [pc EXCEPT ![t] = at]
  BY <1>9
<1> QED BY <1>1, <1>2, <1>3, <1>8, <1>9, <1>10, <1>11, ReaderStep

\* The caller takes the result.
LEMMA StepReturn ==
  ASSUME SourceAssumption, SourceInv, NEW t \in Callers, Return(t)
  PROVE  SourceInv'
<1>1. /\ UNCHANGED <<source, totalSize, blocks>> /\ pc[t] \in {"ok", "error"}
      /\ pc' = [pc EXCEPT ![t] = "idle"]
  BY DEF Return
<1>2. /\ DOMAIN call' = Callers /\ DOMAIN buffer' = Callers
      /\ \A u \in Callers : u # t => call'[u] = call[u] /\ buffer'[u] = buffer[u]
      /\ pc'[t] = "idle"
  BY DEF Return, SourceInv, SourceTypes
<1>3. CASE t = Opener
  <2>1. source \in {"open", "failed"} /\ source' = source
    BY <1>1, <1>3 DEF SourceInv, SourceTypes, Opening
  <2>2. \A u \in Readers : call'[u] = call[u] /\ buffer'[u] = buffer[u]
    BY <1>2, <1>3 DEF Callers, SourceAssumption
  <2>3. pc' = [pc EXCEPT ![Opener] = "idle"]
    BY <1>1, <1>3
  <2> QED BY <1>1, <1>2, <2>1, <2>2, <2>3, OpenerStep
<1>4. CASE t # Opener
  <2>1. t \in Readers /\ source = "open"
    BY <1>1, <1>4 DEF Callers, SourceInv, Opening
  <2>2. OwnRight(t)'
    BY <1>2 DEF OwnRight
  <2>3. CacheRight'
    BY <1>1, CacheKept
  <2> QED BY <1>1, <1>2, <2>1, <2>2, <2>3, ReaderStep
<1> QED BY <1>3, <1>4

\* A call that needs no request returns what it was asked for.
LEMMA ServedFromMemory ==
  ASSUME SourceAssumption, SourceInv, NEW c \in Calls, ~OutsideFile(c)
  PROVE  /\ c.len = 0 \/ c.offset >= totalSize => Right(c, Empty)
         /\ Asked(c) => Right(c, copy_from_complete(c.offset, c.len))
         /\ Asked(c) /\ IsCached(c) => Right(c, FromBlock(blocks[BlockOf(c)], c))
<1>1. /\ c.offset \in Nat /\ c.len \in Nat /\ c.kind \in {"read", "exact", "fetch"}
      /\ totalSize \in Nat
  BY CallNumbers DEF SourceInv, SourceTypes
<1>2. /\ c.kind = "exact" => c.offset <= totalSize /\ c.len <= totalSize - c.offset
      /\ c.kind = "fetch" => c.offset + c.len <= totalSize
  BY <1>1 DEF OutsideFile
<1>3. c.len = 0 \/ c.offset >= totalSize => Right(c, Empty)
  BY <1>1, <1>2 DEF Right, WantedOf, Empty, Buffer
<1>4. Asked(c) => Right(c, copy_from_complete(c.offset, c.len))
  BY <1>1, <1>2 DEF Asked, Right, WantedOf, copy_from_complete, Buffer, Least
<1>5. ASSUME Asked(c), IsCached(c) PROVE Right(c, FromBlock(blocks[BlockOf(c)], c))
  <2>1. ByBlock(c) /\ BlockOf(c) \in DOMAIN blocks
    BY <1>5 DEF IsCached, get_block
  <2>2. blocks[BlockOf(c)] = BlockAt(BlockOf(c))
    BY <2>1 DEF SourceInv, CacheRight
  <2> QED BY <1>1, <1>5, <2>1, <2>2, InsideBlock
<1> QED BY <1>3, <1>4, <1>5

\* A call is refused, served from memory, or becomes a request.
LEMMA StepEnter ==
  ASSUME SourceAssumption, SourceInv, NEW t \in Callers, Enter(t)
  PROVE  SourceInv'
<1>1. UNCHANGED <<source, totalSize, blocks>> /\ t \in Readers /\ source = "open"
  BY DEF Enter
<1>2. PICK c \in Calls :
        /\ call' = [call EXCEPT ![t] = c]
        /\ CASE OutsideFile(c) -> Fails(t)
             [] ~OutsideFile(c) /\ (c.len = 0 \/ c.offset >= totalSize) -> Served(t, c, Empty)
             [] OTHER ->
                  \/ complete /\ Served(t, c, copy_from_complete(c.offset, c.len))
                  \/ ~complete /\ IsCached(c) /\ Served(t, c, FromBlock(blocks[BlockOf(c)], c))
                  \/ /\ ~complete /\ ~IsCached(c)
                     /\ pc' = [pc EXCEPT ![t] = "request"]
                     /\ UNCHANGED <<attempt, buffer>>
  BY DEF Enter
<1>3. /\ DOMAIN call' = Callers /\ \A u \in Callers : u # t => call'[u] = call[u]
      /\ call'[t] = c /\ SourceTypes /\ Readers \subseteq Callers
      /\ DOMAIN buffer = Callers /\ t \in DOMAIN pc
  BY <1>2 DEF SourceInv, SourceTypes, Callers
<1>4. CacheRight'
  BY <1>1, CacheKept
<1>5. c.offset \in Nat /\ c.len \in Nat /\ totalSize \in Nat
  BY CallNumbers DEF SourceInv, SourceTypes
<1>6. CASE Fails(t)
  <2>1. pc' = [pc EXCEPT ![t] = "error"] /\ UNCHANGED buffer /\ pc'[t] = "error"
    BY <1>3, <1>6 DEF Fails
  <2>2. OwnRight(t)'
    BY <2>1 DEF OwnRight
  <2>3. DOMAIN buffer' = Callers
    BY <1>3, <2>1
  <2> QED BY <1>1, <1>3, <1>4, <2>1, <2>2, <2>3, ReaderStep
<1>7. ASSUME NEW b, Served(t, c, b), Right(c, b) PROVE SourceInv'
  <2>1. /\ pc' = [pc EXCEPT ![t] = pc'[t]] /\ pc'[t] \in {"ok", "error"}
        /\ \A u \in Callers : u # t => buffer'[u] = buffer[u]
        /\ DOMAIN buffer' = Callers
        /\ pc'[t] = "ok" => buffer'[t] = b
    BY <1>1, <1>3, <1>7, ServedRight
  <2>2. pc'[t] = "ok" => Right(call[t], buffer[t])'
    BY <1>1, <1>3, <1>7, <2>1 DEF Right, WantedOf
  <2>3. OwnRight(t)'
    BY <2>1, <2>2 DEF OwnRight
  <2>4. PICK at \in {"ok", "error"} : pc' = [pc EXCEPT ![t] = at]
    BY <2>1
  <2> QED BY <1>1, <1>3, <1>4, <2>1, <2>3, <2>4, ReaderStep
<1>8. CASE ~OutsideFile(c) /\ (c.len = 0 \/ c.offset >= totalSize)
  BY <1>2, <1>7, <1>8, ServedFromMemory
<1>9. CASE ~OutsideFile(c) /\ ~(c.len = 0 \/ c.offset >= totalSize)
  <2>1. Asked(c)
    BY <1>5, <1>9 DEF Asked
  <2>2. CASE pc' = [pc EXCEPT ![t] = "request"] /\ UNCHANGED buffer
    <3>1. Asked(call[t])'
      BY <1>1, <1>3, <2>1 DEF Asked, OutsideFile
    <3>2. pc'[t] = "request"
      BY <1>3, <2>2
    <3>3. OwnRight(t)'
      BY <3>1, <3>2 DEF OwnRight
    <3> QED BY <1>1, <1>3, <1>4, <2>2, <3>3, ReaderStep
  <2>3. \/ Served(t, c, copy_from_complete(c.offset, c.len))
        \/ IsCached(c) /\ Served(t, c, FromBlock(blocks[BlockOf(c)], c))
        \/ pc' = [pc EXCEPT ![t] = "request"] /\ UNCHANGED buffer
    BY <1>2, <1>9
  <2> QED BY <1>7, <1>9, <2>1, <2>2, <2>3, ServedFromMemory
<1> QED BY <1>2, <1>6, <1>8, <1>9

\* Every step of every caller keeps the invariant.
LEMMA NextSource == ASSUME SourceAssumption, SourceInv, [Next]_vars PROVE SourceInv'
<1>1. CASE UNCHANGED vars
  BY <1>1, SourceStutters DEF vars
<1>2. CASE Refused
  BY <1>2, SourceStutters DEF Refused, vars
<1>3. ASSUME NEW t \in Callers, Step(t) \/ Enter(t) PROVE SourceInv'
  BY <1>3, StepAttemptFails, StepResponds, StepInsert, StepReturn, StepEnter DEF Step
<1> QED BY <1>1, <1>2, <1>3, StepProbe DEF Next

\* Whatever the server answers and however threads race for a block, a read
\* returns the bytes asked for, short only at the end of the file (read_range_into,
\* read_exact_range, fetch_range).
THEOREM SourceReadsExact == ASSUME SourceAssumption PROVE Spec => []ReadsExact
<1>1. Init => SourceInv
  BY InitSource
<1>2. SourceInv /\ [Next]_vars => SourceInv'
  BY NextSource
<1>3. SourceInv => ReadsExact
  BY DEF SourceInv, CallsRight, Right, WantedOf, ReadsExact
<1> QED BY <1>1, <1>2, <1>3, PTL DEF Spec

=============================================================================
