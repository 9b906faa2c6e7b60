-------------------------- MODULE MCAdapterSession --------------------------
(***************************************************************************)
(* AdapterSession on small instances, and the one property of it that      *)
(* needs the community's sequence operators.                               *)
(***************************************************************************)
EXTENDS AdapterSession, SequencesExt

\* Every unit between the adapter's write and the caller, oldest first.
Stream ==
    buffer \o FlattenSeq([i \in DOMAIN chunks |-> chunks[i].data])
           \o held.data \o outPipe

Follows(u, v) ==
    IF u.end = "no" THEN v.line = u.line /\ v.pos = u.pos + 1
    ELSE v.line = u.line + 1 /\ v.pos = 1

(* No byte is lost, doubled or moved between the adapter's write, the pump's  *)
(* chunks, the queue and the line buffer, and the buffer always starts at     *)
(* the start of a line, whatever way lines and chunks are cut.  A closing     *)
(* session may drop a chunk, which nobody can read any more.                  *)
ByteStream ==
    ~stopPump =>
        LET all == Append(Stream, [line |-> nextLine, pos |-> nextPos])
        IN  /\ all[1].pos = 1
            /\ \A i \in 1..Len(all) - 1 : Follows(all[i], all[i + 1])
=============================================================================
