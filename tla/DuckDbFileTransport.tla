-------------------------- MODULE DuckDbFileTransport --------------------------
(* Byte-range reads through the host database's file system. A range read takes *)
(* a file handle from a shared pool, or opens one, seeks and reads until the    *)
(* range is filled, and puts the handle back, whatever came of the read. A      *)
(* handle has one position and no lock of its own, so two readers on one handle *)
(* would read each other's bytes.                                               *)
EXTENDS Integers, Sequences, FiniteSets

CONSTANTS Readers,      \* the threads that fetch ranges
          MaxHandles,   \* the handles the model may open
          TotalSize,    \* the size measured when the transport was opened
          Length,       \* the bytes the file really holds now
          None          \* no handle, no answer

(* What an instance has to satisfy. *)
TransportAssumption ==
    /\ IsFiniteSet(Readers) /\ Readers # {}
    /\ MaxHandles \in Nat \ {0} /\ TotalSize \in Nat /\ Length \in Nat
    /\ None \notin Nat

VARIABLES pool,         \* the handles waiting in the pool, the last one on top
          opened,       \* how many handles have been opened
          position,     \* position[h]: the offset the next read of h starts at
          request,      \* request[r]: the range reader r is fetching
          handle,       \* handle[r]: the handle reader r has taken
          at,           \* at[r]: "idle", "ask", "seek", "read" or "back"
          buf,          \* buf[r]: the bytes read so far; byte i of the file is i
          answer        \* answer[r]: what the last fetch returned

transportVars == <<pool, opened, position, request, handle, at, buf, answer>>

Handles == 1..MaxHandles
Offsets == 0..TotalSize

(* Opening the transport reads the size through a first handle, which becomes   *)
(* the pool.                                                                    *)
TransportInit ==
    /\ pool = <<1>>
    /\ opened = 1
    /\ position = [h \in Handles |-> 0]
    /\ request = [r \in Readers |-> [start |-> 0, end |-> 0]]
    /\ handle = [r \in Readers |-> None]
    /\ at = [r \in Readers |-> "idle"]
    /\ buf = [r \in Readers |-> <<>>]
    /\ answer = [r \in Readers |-> None]

MoveTo(r, pc) == at' = [at EXCEPT ![r] = pc]

InRange(q) == q.start <= q.end /\ q.end < TotalSize

(* A range outside the file is refused before a handle is taken. *)
fetch_range(r, start, end) ==
    LET q == [start |-> start, end |-> end]
    IN  /\ at[r] = "idle"
        /\ request' = [request EXCEPT ![r] = q]
        /\ buf' = [buf EXCEPT ![r] = <<>>]
        /\ answer' = [answer EXCEPT ![r] = None]
        /\ IF InRange(q) THEN MoveTo(r, "ask") ELSE UNCHANGED at
        /\ UNCHANGED <<pool, opened, position, handle>>

(* The pool's lock is held until a handle is popped or opened. *)
Checkout(r) ==
    /\ at[r] = "ask" /\ pool # <<>>
    /\ handle' = [handle EXCEPT ![r] = pool[Len(pool)]]
    /\ pool' = SubSeq(pool, 1, Len(pool) - 1)
    /\ MoveTo(r, "seek")
    /\ UNCHANGED <<opened, position, request, buf, answer>>

OpenHandle(r) ==
    /\ at[r] = "ask" /\ pool = <<>>
    /\ opened < MaxHandles
    /\ opened' = opened + 1
    /\ position' = [position EXCEPT ![opened + 1] = 0]
    /\ handle' = [handle EXCEPT ![r] = opened + 1]
    /\ MoveTo(r, "seek")
    /\ UNCHANGED <<pool, request, buf, answer>>

OpenFails(r) ==
    /\ at[r] = "ask" /\ pool = <<>>
    /\ MoveTo(r, "idle")
    /\ UNCHANGED <<pool, opened, position, request, handle, buf, answer>>

Seek(r) ==
    /\ at[r] = "seek"
    /\ position' = [position EXCEPT ![handle[r]] = request[r].start]
    /\ MoveTo(r, "read")
    /\ UNCHANGED <<pool, opened, request, handle, buf, answer>>

Wanted(r) == request[r].end - request[r].start + 1 - Len(buf[r])
Left(r) == Length - position[handle[r]]

(* One read of the file layer returns any number of the bytes asked for. *)
Read(r) ==
    /\ at[r] = "read"
    /\ \E n \in 1..Wanted(r) :
         /\ n <= Left(r)
         /\ buf' = [buf EXCEPT ![r] = @ \o [i \in 1..n |-> position[handle[r]] + i - 1]]
         /\ position' = [position EXCEPT ![handle[r]] = @ + n]
    /\ UNCHANGED <<pool, opened, request, handle, at, answer>>

Filled(r) ==
    /\ at[r] = "read" /\ Wanted(r) = 0
    /\ answer' = [answer EXCEPT ![r] = buf[r]]
    /\ MoveTo(r, "back")
    /\ UNCHANGED <<pool, opened, position, request, handle, buf>>

(* A seek or a read fails, or a read returns nothing before the range is full. *)
ReadFails(r) ==
    /\ at[r] \in {"seek", "read"}
    /\ at[r] = "read" => Wanted(r) > 0
    /\ MoveTo(r, "back")
    /\ UNCHANGED <<pool, opened, position, request, handle, buf, answer>>

PutBack(r) ==
    /\ at[r] = "back"
    /\ pool' = Append(pool, handle[r])
    /\ handle' = [handle EXCEPT ![r] = None]
    /\ MoveTo(r, "idle")
    /\ UNCHANGED <<opened, position, request, buf, answer>>

(* The first bytes of the file, and whether they are all of it. *)
probe(r, length) ==
    /\ TotalSize > 0
    /\ fetch_range(r, 0, (IF length < TotalSize THEN length ELSE TotalSize) - 1)

TransportNext == \E r \in Readers :
    \/ \E s, e \in Offsets : fetch_range(r, s, e)
    \/ \E n \in 1..2 : probe(r, n)
    \/ Checkout(r) \/ OpenHandle(r) \/ OpenFails(r) \/ Seek(r) \/ Read(r)
    \/ Filled(r) \/ ReadFails(r) \/ PutBack(r)

TransportSpec == TransportInit /\ [][TransportNext]_transportVars

(* Concurrent readers never mix their bytes: a fetch that answers returns       *)
(* exactly the bytes of its own range, however the seeks and reads of the       *)
(* others fall; every handle is in the pool once or with one reader; and no     *)
(* more handles are opened than there were ever readers at once.                *)
FetchExact ==
    /\ \A r \in Readers : answer[r] # None =>
         answer[r] = [i \in 1..(request[r].end - request[r].start + 1) |-> request[r].start + i - 1]
    /\ \A h \in 1..opened :
         Cardinality({i \in DOMAIN pool : pool[i] = h})
           + Cardinality({r \in Readers : handle[r] = h}) = 1
    /\ opened <= Cardinality(Readers)
================================================================================
