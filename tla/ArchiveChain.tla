---------------------------- MODULE ArchiveChain ----------------------------
(***************************************************************************)
(* tools/debian_archive_auth.py: verify_snapshot and verify_source, which  *)
(* authenticate one binary and its source in a copy of the archive, while  *)
(* the copy is being brought up to date file by file.                      *)
(*                                                                         *)
(* Abstractions.  A publication is its number; a file's content is the     *)
(* publication it came with, or Broken for any bytes that no publication   *)
(* names.  A digest names exactly one content.  What the archive's keys    *)
(* have signed is a publication's Release; keys, dates, syntax and limits  *)
(* are one failure (`Refuse`).                                             *)
(***************************************************************************)
EXTENDS Naturals

CONSTANTS Last,        \* publications are numbered from 1
          Binary,      \* the version of the binary in each publication
          Sources,     \* the versions of its source package that each lists
          SourceOf,    \* the source version each binary version was built from
          Members,     \* the files of a source package
          MaxBreaks

Publications == 1 .. Last
Broken       == 0
Versions     == {Binary[p] : p \in Publications}
Built        == {SourceOf[v] : v \in Versions}
Listings     == {"Release", "Packages", "Sources"}

PublicationAssumption == Last \in Nat \ {0} /\ \A p \in Publications : SourceOf[Binary[p]] \in Sources[p]

VARIABLES
  listing,   \* the content of each index file of the copy
  deb,       \* whether each binary version's file in the pool is the archive's
  member,    \* and each source version's files
  breaks,
  at,        \* where the verification is
  asked,     \* the binary version whose file it was asked to verify
  release,   \* the Release it authenticated first
  again,     \* and the one that it looked the source up in
  packages, sources, \* the indexes it read
  files      \* the members that it has compared

copy == <<listing, deb, member, breaks>>
read == <<release, again, packages, sources, files>>
vars == <<copy, at, asked, read>>

Init ==
  /\ listing \in [Listings -> Publications] /\ \A l \in Listings : listing[l] = listing["Release"]
  /\ deb = [v \in Versions |-> TRUE] /\ member = [v \in Built |-> Members] /\ breaks = 0
  /\ at = "idle" /\ asked \in Versions
  /\ release = Broken /\ again = Broken /\ packages = Broken /\ sources = Broken /\ files = {}
-----------------------------------------------------------------------------
Goto(from, to) == at = from /\ at' = to

Call ==
  /\ Goto("idle", "release")
  /\ asked' \in Versions
  /\ UNCHANGED <<copy, read>>

\* _read_release.
ReadRelease ==
  /\ Goto("release", "packages")
  /\ listing["Release"] # Broken
  /\ release' = listing["Release"]
  /\ UNCHANGED <<copy, asked, again, packages, sources, files>>

\* The Packages index that Release names, and in it the one row of the file.
ReadPackages ==
  /\ Goto("packages", "deb")
  /\ listing["Packages"] = release
  /\ Binary[release] = asked
  /\ packages' = listing["Packages"]
  /\ UNCHANGED <<copy, asked, release, again, sources, files>>

\* verify_source goes on where verify_snapshot returns.
ReadDeb ==
  /\ Goto("deb", "release again")
  /\ deb[asked]
  /\ UNCHANGED <<copy, asked, read>>

Bug_AnyRelease ==
  /\ Goto("release again", "sources")
  /\ listing["Release"] # Broken
  /\ again' = listing["Release"]
  /\ UNCHANGED <<copy, asked, release, packages, sources, files>>

ReadReleaseAgain ==
  /\ Goto("release again", "sources")
  /\ listing["Release"] = release
  /\ again' = listing["Release"]
  /\ UNCHANGED <<copy, asked, release, packages, sources, files>>

ReadSources ==
  /\ Goto("sources", "members")
  /\ listing["Sources"] = again
  /\ SourceOf[asked] \in Sources[again]
  /\ sources' = listing["Sources"]
  /\ UNCHANGED <<copy, asked, release, again, packages, files>>

HashMember(m) ==
  /\ at = "members" /\ m \notin files
  /\ m \in member[SourceOf[asked]]
  /\ files' = files \cup {m}
  /\ at' = IF files' = Members THEN "answer" ELSE at
  /\ UNCHANGED <<copy, asked, release, again, packages, sources>>

Forget == release' = Broken /\ again' = Broken /\ packages' = Broken /\ sources' = Broken /\ files' = {}

Return == Goto("answer", "idle") /\ Forget /\ UNCHANGED <<copy, asked>>
Refuse == at \notin {"idle", "answer"} /\ at' = "idle" /\ Forget /\ UNCHANGED <<copy, asked>>
-----------------------------------------------------------------------------
\* The copy: a file is replaced by that of a later publication, in any order, or
\* breaks, or is repaired.
Update(l) ==
  /\ listing' \in {[listing EXCEPT ![l] = p] : p \in listing[l] + 1 .. Last}
  /\ UNCHANGED <<deb, member, breaks, at, asked, read>>

Break ==
  /\ breaks < MaxBreaks /\ breaks' = breaks + 1
  /\ \/ \E l \in Listings : listing' = [listing EXCEPT ![l] = Broken] /\ UNCHANGED <<deb, member>>
     \/ \E v \in Versions : deb' = [deb EXCEPT ![v] = FALSE] /\ UNCHANGED <<listing, member>>
     \/ \E v \in Built, m \in Members : member' = [member EXCEPT ![v] = @ \ {m}] /\ UNCHANGED <<listing, deb>>
  /\ UNCHANGED <<at, asked, read>>

Repair ==
  /\ deb' = [v \in Versions |-> TRUE] /\ member' = [v \in Built |-> Members]
  /\ UNCHANGED <<listing, breaks, at, asked, read>>

Verify == Call \/ ReadRelease \/ ReadPackages \/ ReadDeb \/ ReadReleaseAgain \/ ReadSources
            \/ (\E m \in Members : HashMember(m)) \/ Return \/ Refuse

Next == Verify \/ (\E l \in Listings : Update(l)) \/ Break \/ Repair

Spec == Init /\ [][Next]_vars
-----------------------------------------------------------------------------
\* A source manifest joins a binary and a source that one and the same Release
\* names, each in an index of its own, and all of its files were the archive's
\* when they were read, although index files, binary and members are read one
\* after the other from a copy that changes (debian_archive_auth.py:212).
OneRelease ==
  at = "answer" =>
    /\ release # Broken /\ packages = release /\ sources = release
    /\ Binary[release] = asked /\ SourceOf[asked] \in Sources[release]
    /\ files = Members
=============================================================================
