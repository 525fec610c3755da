----------------------------- MODULE MCArchives -----------------------------
(***************************************************************************)
(* Instances for TLC of what reads archives.  Three programs do it while   *)
(* others change them: the archive observer with its site's files and      *)
(* clock, the authentication of a copy that is being updated, and the      *)
(* listings of a media directory; two algorithms read what is in them: the *)
(* order of versions and the numbers of tar headers.  They have nothing in *)
(* common, so each is run by itself: `program' is the one a behaviour is   *)
(* about, the observer of the others never starts, and their other         *)
(* variables are Unused.                                                   *)
(***************************************************************************)
EXTENDS ArchiveObserver, TLC

CONSTANTS c1,                              \* a client of the archive observer
          p1, p2, deb1, deb2,              \* commands on a media directory, and archives in it
          Last, Binary, Sources, SourceOf, Members, MaxBreaks,                         \* of ArchiveChain
          Commands, Archives, Absent, Unknown, Torn, LastFile, MaxChanges, MaxLosses,   \* of Media
          Characters, Letters, Code, Longest, GreatestEpoch,             \* of VersionOrder
          Radix, Places, Octal, Byte, Most, LongestText, FieldSize       \* of TarClocks

VARIABLES
  program,
  listing, deb, breaks, asked, release, again, packages, sources, files,     \* of ArchiveChain
  at, member,                                                                \* of both
  a, b, field, text, result,       \* of VersionOrder and TarClocks
  toc, disk, mode, old, body, seen, temp, stale, moment, past, changes, losses   \* of Media

chain    == <<listing, deb, breaks, asked, release, again, packages, sources, files>>
shared   == <<at, member>>
parsers  == <<a, b, field, text, result>>
media    == <<toc, disk, mode, old, body, seen, temp, stale, moment, past, changes, losses>>

\* The second configuration raises the floor and shortens the lifetime.
MCClients == {c1}
MCFloor   == [v \in 1 .. LastVersion |-> v - 1]
MCLife    == [v \in 1 .. LastVersion |-> LastVersion + 1 - v]

\* The binary is rebuilt in the second publication from the same source, and comes
\* from a new one in the third, which still lists the old.
MCBinary   == <<1, 2, 3>>
MCSourceOf == <<1, 1, 2>>
MCSources  == <<{1}, {1}, {1, 2}>>

Chain == INSTANCE ArchiveChain
Media == INSTANCE Media

\* A character of every class that compare distinguishes, and its code.
MCCode == [c \in {"a", "+", ":", "-"} |-> CASE c = "a" -> 97 [] c = "+" -> 43 [] c = ":" -> 58 [] OTHER -> 45]

Order  == INSTANCE VersionOrder WITH MaxEpoch <- GreatestEpoch
Clocks == INSTANCE TarClocks

ASSUME OtherAssumptions ==
  /\ Chain!PublicationAssumption /\ Media!ValueAssumption /\ Media!BoundAssumption
  /\ Order!CodeAssumption /\ Clocks!SizeAssumption

Unused  == "unused"
NoChain == /\ listing = Unused /\ deb = Unused /\ breaks = Unused /\ asked = Unused /\ release = Unused
           /\ again = Unused /\ packages = Unused /\ sources = Unused /\ files = Unused
NoMedia == /\ toc = Unused /\ disk = Unused /\ mode = Unused /\ old = Unused /\ body = Unused /\ seen = Unused
           /\ temp = Unused /\ stale = Unused /\ moment = Unused /\ past = Unused /\ changes = Unused /\ losses = Unused

NoParser == a = Unused /\ b = Unused /\ field = Unused /\ text = Unused /\ result = Unused

MCInit ==
  /\ Init
  /\ \/ program = "observer" /\ at = Unused /\ member = Unused /\ NoChain /\ NoMedia /\ NoParser
     \/ program = "chain" /\ Chain!Init /\ NoMedia /\ NoParser
     \/ program = "media" /\ Media!Init /\ NoChain /\ NoParser
     \/ program = "versions" /\ Order!Init /\ at = Unused /\ member = Unused /\ field = Unused /\ text = Unused
          /\ NoChain /\ NoMedia
     \/ program = "clocks" /\ Clocks!Init /\ at = Unused /\ member = Unused /\ a = Unused /\ b = Unused
          /\ NoChain /\ NoMedia

MCNext ==
  /\ UNCHANGED program
  /\ \/ program = "observer" /\ Next /\ UNCHANGED <<shared, chain, media, parsers>>
     \/ program = "chain" /\ Chain!Next /\ UNCHANGED <<vars, media, parsers>>
     \/ program = "media" /\ Media!Next /\ UNCHANGED <<vars, chain, parsers>>
     \/ program = "versions" /\ Order!Next /\ UNCHANGED <<vars, shared, chain, media, field, text>>
     \/ program = "clocks" /\ Clocks!Next /\ UNCHANGED <<vars, shared, chain, media, a, b>>

MCSpec == MCInit /\ [][MCNext]_<<program, vars, shared, chain, media, parsers>>

Symmetry == Permutations({p1, p2}) \cup Permutations({deb1, deb2})
-----------------------------------------------------------------------------
\* What the other modules say of their programs; it is explained there.

\* debian_archive_auth.py: what is joined in a manifest is named by one Release.
OneRelease       == program = "chain" => Chain!OneRelease

\* media.py: a listing is what the directory held at one moment of the command.
ListingIsOneMoment == program = "media" => Media!ListingIsOneMoment

\* The index that is found, now and after a power loss, is whole and was true.
IndexIsTrue        == program = "media" => Media!IndexIsTrue

\* debian_semantics.py: compare is the order of the sort keys of Debian's policy.
CompareIsDebianOrder == program = "versions" => Order!CompareIsDebianOrder

\* tar_clocks.c: a number is read as what its bytes mean, or refused; nothing overflows.
ReadsWhatIsWritten == program = "clocks" => Clocks!ReadsWhatIsWritten
=============================================================================
