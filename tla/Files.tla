------------------------------- MODULE Files -------------------------------
(***************************************************************************)
(* KDUtils::File: a path and a stream, or on Android an asset, opened in   *)
(* turn.  The size is asked of the path, the content of the stream.        *)
(***************************************************************************)
EXTENDS Integers, SequencesExt

CONSTANTS
    Letters,   \* bytes a program writes
    MaxLength  \* bound: length of the file

VARIABLES
    storage,   \* StorageType: "normal" or "asset"
    linked,    \* the path names the file that the stream has open, or would open
    content,   \* what the system has of it
    stream,    \* the modes it is open in, {} when it is not; `asset` as {"in"}
    good,      \* no read or write on it has failed since it was opened
    place,     \* where it reads and writes next
    unwritten, \* what it has not handed to the system yet, from `place` - its length
    read       \* what the last readAll returned, "throws" or "none"

fiVars == <<storage, linked, content, stream, good, place, unwritten, read>>

Modes == {{"in"}, {"out"}, {"in", "out"}}

Nothing == [ended |-> "none", bytes |-> <<>>]

Returns(bytes) == read' = [ended |-> "returned", bytes |-> bytes]

FiTypeOK ==
    /\ storage \in {"normal", "asset"} /\ linked \in BOOLEAN /\ good \in BOOLEAN
    /\ content \in Seq(Letters) /\ unwritten \in Seq(Letters)
    /\ read \in [ended : {"none", "returned", "zeros", "throws"}, bytes : Seq(Letters)]
    /\ stream \in Modes \cup {{}} /\ place \in 0..MaxLength
    /\ (stream = {} \/ storage = "asset") => unwritten = <<>>

FiInit ==
    /\ storage \in {"normal", "asset"} /\ linked \in BOOLEAN
    /\ content \in {<<>>} \cup {<<x>> : x \in Letters}
    /\ stream = {} /\ good = TRUE /\ place = 0 /\ unwritten = <<>> /\ read = Nothing
-----------------------------------------------------------------------------
\* The content once the stream has handed over what it holds.
Flushed ==
    LET start == place - Len(unwritten)
    IN  IF unwritten = <<>> THEN content
        ELSE SubSeq(content, 1, start) \o unwritten \o
             SubSeq(content, place + 1, Len(content))

Flush ==
    /\ stream # {} /\ storage = "normal"
    /\ content' = Flushed /\ unwritten' = <<>> /\ read' = Nothing
    /\ UNCHANGED <<storage, linked, stream, good, place>>

\* open closes first.  Writing only makes the file or empties it; otherwise it has
\* to be there.  What was flushed into a file without a name is lost with it.
Open(mode) ==
    /\ (storage = "asset" => mode = {"in"})
    /\ IF linked \/ mode = {"out"}
       THEN /\ content' = IF mode = {"out"} THEN <<>> ELSE Flushed
            /\ stream' = mode /\ linked' = TRUE
       ELSE stream' = {} /\ content' = Flushed /\ UNCHANGED linked
    /\ good' = TRUE /\ place' = 0 /\ unwritten' = <<>> /\ read' = Nothing
    /\ UNCHANGED storage

\* close, which the destructor calls as well.
Close ==
    /\ content' = Flushed /\ stream' = {} /\ place' = 0 /\ unwritten' = <<>>
    /\ read' = Nothing /\ UNCHANGED <<storage, linked, good>>

\* write: a stream that is not open for it, or has failed before, drops the bytes.
Write ==
    /\ stream # {} /\ storage = "normal" /\ place < MaxLength
    /\ IF "out" \in stream /\ good
       THEN /\ \E x \in Letters : unwritten' = Append(unwritten, x)
            /\ place' = place + 1 /\ UNCHANGED good
       ELSE good' = FALSE /\ UNCHANGED <<unwritten, place>>
    /\ read' = Nothing /\ UNCHANGED <<storage, linked, content, stream>>

\* Mutant: the stream goes on where it is.
ReadAllMutant ==
    /\ stream # {} /\ linked /\ "in" \in stream /\ good /\ content # <<>>
    /\ Returns(SubSeq(Flushed, place + 1, Len(content)))
    /\ content' = Flushed /\ unwritten' = <<>> /\ place' = Len(content)
    /\ UNCHANGED <<storage, linked, stream, good>>

\* readAll.  For a path without a file the size is the largest there is.  A stream
\* that cannot be read leaves the array full of zeros.
ReadAll ==
    /\ stream # {}
    /\ CASE ~linked -> 
                read' = [Nothing EXCEPT !.ended = "throws"] /\ UNCHANGED <<content, unwritten, place, good>>
         [] linked /\ content = <<>> ->
                Returns(<<>>) /\ UNCHANGED <<content, unwritten, place, good>>
         [] linked /\ content # <<>> /\ "in" \in stream /\ good ->
                /\ Returns(SubSeq(Flushed, 1, Len(content)))
                /\ content' = Flushed /\ unwritten' = <<>> /\ place' = Len(content)
                /\ UNCHANGED good
         [] linked /\ content # <<>> /\ ~("in" \in stream /\ good) ->
                /\ read' = [Nothing EXCEPT !.ended = "zeros"] /\ good' = FALSE
                /\ IF good THEN content' = Flushed /\ unwritten' = <<>> /\ place' = 0
                   ELSE UNCHANGED <<content, unwritten, place>>
    /\ UNCHANGED <<storage, linked, stream>>

\* remove, by the object or by another program; assets stay.
RemoveFile ==
    /\ storage = "normal" /\ linked /\ linked' = FALSE /\ read' = Nothing
    /\ UNCHANGED <<storage, content, stream, good, place, unwritten>>

FiNext == Flush \/ (\E mode \in Modes : Open(mode)) \/ Close \/ Write \/ ReadAll \/ RemoveFile

FiSpec == FiInit /\ [][FiNext]_fiVars
-----------------------------------------------------------------------------
\* readAll returns the file from its start, all of it unless the program has
\* written past its end and not flushed, and throws only when the file is gone.
ReadsFromTheStart ==
    read' # read /\ read'.ended # "none" =>
        /\ (read'.ended = "throws" => ~linked)
        /\ ("in" \in stream /\ good /\ linked) =>
              /\ read'.ended = "returned" /\ IsPrefix(read'.bytes, content')
              /\ (unwritten = <<>> => read'.bytes = content')
=============================================================================
