-------------------------------- MODULE Urls --------------------------------
(***************************************************************************)
(* KDUtils::Url: the regular expression that splits a text into scheme,    *)
(* path and file name, and the way from a local file's path to a URL and   *)
(* back.  A text is a sequence of characters, of which four matter; "file" *)
(* and "http" stand for the words.                                         *)
(***************************************************************************)
EXTENDS Integers, SequencesExt

CONSTANTS
    UrlLetters, \* characters without a meaning
    Words,      \* "file" and others, more than one character each
    MaxPath     \* bound: length of a path

\* A word is no character.
ASSUME WordsAndLetters ==
    /\ "file" \in Words /\ UrlLetters \cap Words = {}
    /\ {".", "/", ":"} \cap (UrlLetters \cup Words) = {}

Characters == UrlLetters \cup Words \cup {".", "/", ":"}

\* The path at hand.
VARIABLE local

urlVars == <<local>>
-----------------------------------------------------------------------------
NoParts == [scheme |-> <<>>, path |-> <<>>, fileName |-> <<>>]

\* ([^\/]{2,})?:(?:\/\/)? of the expression: the colons a scheme can end at, 1 for
\* a colon without a scheme, 0 for nothing at all.  The last one is tried first.
Schemes(t) ==
    {0} \cup {i \in DOMAIN t :
                   /\ t[i] = ":"
                   /\ \A j \in 1..(i - 1) : t[j] # "/"
                   /\ i # 2 \/ t[1] \in Words}

\* .+\..+
IsFile(t) == \E i \in 2..(Len(t) - 1) : t[i] = "."

\* (.*\/)*(.+\..+)? matches the text: the path takes as much as it can.
PathEnds(t) ==
    {i \in 0..Len(t) : /\ i = 0 \/ t[i] = "/"
                       /\ i = Len(t) \/ IsFile(SubSeq(t, i + 1, Len(t)))}

AfterScheme(t, colon) ==
    LET rest == SubSeq(t, colon + 1, Len(t))
    IN  IF colon > 0 /\ IsPrefix(<<"/", "/">>, rest)
        THEN {SubSeq(rest, 3, Len(rest)), rest} ELSE {rest}

\* The constructor: the first match, with the slashes taken if that leaves one.
Url(t) ==
    LET matching == {c \in Schemes(t) : \E r \in AfterScheme(t, c) : PathEnds(r) # {}}
        colon    == Max(matching)
        rest     == CHOOSE r \in AfterScheme(t, colon) :
                        /\ PathEnds(r) # {}
                        /\ \A q \in AfterScheme(t, colon) : PathEnds(q) # {} => Len(r) <= Len(q)
        end      == Max(PathEnds(rest))
    IN  IF matching = {} THEN NoParts
        ELSE [scheme   |-> SubSeq(t, 1, colon - 1),
              path     |-> SubSeq(rest, 1, end),
              fileName |-> SubSeq(rest, end + 1, Len(rest))]

IsLocalFile(u) == u.scheme # <<>> /\ u.scheme[1] = "file"

ToLocalFile(u) == IF IsLocalFile(u) THEN u.path \o u.fileName ELSE <<>>

\* Mutant: a path with a drive is not marked as absolute.
FromLocalFileMutant(path) ==
    IF Url(path).scheme # <<>> THEN path ELSE <<"file", ":", "/">> \o path

\* fromLocalFile, as the text of the URL it makes.
FromLocalFile(path) ==
    CASE Url(path).scheme # <<>> -> path
      [] Url(path).scheme = <<>> /\ Url(path).path = <<>> -> <<"file", ":">> \o path
      [] OTHER -> IF Len(path) > 1 /\ path[2] = ":" /\ path[1] \in UrlLetters \cup {".", ":"}
                  THEN <<"file", ":", "/", "/", "/">> \o path
                  ELSE <<"file", ":", "/", "/">> \o path
-----------------------------------------------------------------------------
UrlInit == local = <<>>

Grow == Len(local) < MaxPath /\ \E c \in Characters : local' = Append(local, c)

UrlNext == Grow

UrlSpec == UrlInit /\ [][UrlNext]_urlVars
-----------------------------------------------------------------------------
\* A path without a colon whose last component is empty or has an extension
\* comes back from its URL as it was, one that starts with a drive and has a path
\* with a slash in front.  For a name without an extension the expression has no
\* match, and the URL made of it is not that of a local file; a file whose name
\* starts with a dot, in the root of a drive, loses the drive.
LocalFilesComeBack ==
    local # <<>> /\ PathEnds(local) # {} =>
        /\ (\A i \in DOMAIN local : local[i] # ":") =>
              ToLocalFile(Url(FromLocalFile(local))) = local
        /\ (local[1] \in UrlLetters /\ IsPrefix(<<":", "/">>, Tail(local))
            /\ Url(local).path # <<>> /\ \A i \in 3..Len(local) : local[i] # ":") =>
              ToLocalFile(Url(FromLocalFile(local))) = <<"/">> \o local
=============================================================================
