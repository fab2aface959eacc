---------------------------- MODULE Compression ----------------------------
(***************************************************************************)
(* The compression plugin (plugin/compression/compression.go) between a    *)
(* client and a server: PostConnected on the client and PostConnAccept on  *)
(* the server replace each side's net.Conn by a CompressConn of the same   *)
(* CompressType, whose Write goes through the type's compressing writer    *)
(* and whose Read through the matching decompressing reader.  The client's *)
(* codec writes requests, the server answers each request it decoded, and  *)
(* the client decodes the answers.                                         *)
(*                                                                         *)
(* Data is counted in abstract units of uncompressed bytes.  The writers   *)
(* of the compression libraries are modelled from their documented         *)
(* behaviour: flate's Writer keeps data until Flush, snappy's buffered     *)
(* Writer and lz4's Writer keep data until a block of Block units is full  *)
(* (snappy forwards it on the Write that overflows it, or writes a Write   *)
(* larger than the whole buffer directly; lz4 forwards a block as soon as  *)
(* it is full).  A reader can decode a message once all of its units have  *)
(* reached the underlying connection.                                      *)
(***************************************************************************)
EXTENDS Naturals, Sequences

CONSTANTS
    CompressTypes, \* the CompressType values NewCompressionPlugin may get
    Block,         \* the block size of the buffering writers, in units
    Sizes,         \* sizes of the messages a codec writes in one Write
    MaxCalls       \* requests the client writes

Types == {"CompressNone", "CompressFlate", "CompressSnappy", "CompressLZ4"}
Dirs == {"req", "resp"}      \* client to server, server to client

\* The constants range over: CompressTypes \subseteq Types, Block and every
\* member of Sizes in Nat \ {0}, and MaxCalls in Nat.

VARIABLES
    ctype,     \* the CompressType both plugins were created with
    ends,      \* ends[d][k]: offset just past message k written on d
    held,      \* held[d]: units the writer of d keeps buffered
    flushed,   \* flushed[d]: units that reached the underlying net.Conn
    got        \* got[d]: messages the reader of d has decoded

vars == <<ctype, ends, held, flushed, got>>

TypeOK ==
    /\ ctype \in Types
    /\ ends \in [Dirs -> Seq(Nat)]
    /\ held \in [Dirs -> Nat]
    /\ flushed \in [Dirs -> Nat]
    /\ got \in [Dirs -> Nat]

Init ==
    /\ ctype \in CompressTypes
    /\ ends = [d \in Dirs |-> <<>>]
    /\ held = [d \in Dirs |-> 0]
    /\ flushed = [d \in Dirs |-> 0]
    /\ got = [d \in Dirs |-> 0]

-----------------------------------------------------------------------------
\* Units a writer forwards when a Write of n units finds h units buffered:
\* snappy forwards nothing until the data overflows its buffer, then fills
\* and forwards the buffer and writes what is left directly if that alone
\* would overflow an empty buffer; lz4 forwards every block it fills; the
\* other types forward everything.
Forwarded(t, h, n) ==
    CASE t = "CompressSnappy" ->
           IF h + n <= Block THEN 0
           ELSE IF h = 0 \/ h + n - Block > Block THEN h + n ELSE Block
      [] t = "CompressLZ4" -> Block * ((h + n) \div Block)
      [] OTHER -> h + n

(* CompressConn.Write of one message of n units on direction d: passed     *)
(* straight to the net.Conn (CompressNone), written and flushed by         *)
(* writeFlusher (CompressFlate), or handed to the buffering writer.        *)
Write(d, n) ==
    LET out == Forwarded(ctype, held[d], n)
    IN /\ ends' = [ends EXCEPT ![d] = Append(@, flushed[d] + held[d] + n)]
       /\ flushed' = [flushed EXCEPT ![d] = @ + out]
       /\ held' = [held EXCEPT ![d] = @ + n - out]

\* The reader of d has the whole of the next message.
Readable(d) ==
    /\ got[d] < Len(ends[d])
    /\ ends[d][got[d] + 1] <= flushed[d]

\* CompressConn.Read through the decompressing reader: the codec decodes
\* the next message on d.
Read(d) ==
    /\ Readable(d)
    /\ got' = [got EXCEPT ![d] = @ + 1]
    /\ UNCHANGED <<ctype, ends, held, flushed>>

\* The client's codec writes a request.
ClientWrite ==
    /\ Len(ends["req"]) < MaxCalls
    /\ \E n \in Sizes : Write("req", n)
    /\ UNCHANGED <<ctype, got>>

\* The server writes the response to a request it has decoded.
ServerReply ==
    /\ Len(ends["resp"]) < got["req"]
    /\ \E n \in Sizes : Write("resp", n)
    /\ UNCHANGED <<ctype, got>>

Next == ClientWrite \/ ServerReply \/ \E d \in Dirs : Read(d)

(* The server's read loop and handlers and the client's receiving          *)
(* goroutine run whenever they can; the client need not send more.         *)
Spec ==
    /\ Init /\ [][Next]_vars
    /\ WF_vars(ServerReply) /\ \A d \in Dirs : WF_vars(Read(d))

-----------------------------------------------------------------------------
(* The plugin is meant to be transparent ("can compress responses and      *)
(* decompress requests"; the spec treats a compressor as an opaque         *)
(* wrapped connection): every request the client writes through its      *)
(* CompressConn is eventually decoded by the server and answered, and the *)
(* answer decoded by the client -- whatever the CompressType.              *)
CallsComplete ==
    \A k \in 1..MaxCalls : Len(ends["req"]) >= k ~> got["resp"] >= k
=============================================================================
