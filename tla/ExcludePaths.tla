---------------------------- MODULE ExcludePaths ----------------------------
(***************************************************************************)
(* pkg/common/exclude.go: the list of paths to leave out of an image,      *)
(* built by a caller that names each path of a tree once, in any order, as *)
(* one to exclude or one to include.                                       *)
(*                                                                         *)
(* A path is the sequence of its names; "/" is << >> and is not named.     *)
(* The code compares paths as strings, so that /usr is a prefix of         *)
(* /usr2: NameStarts     has the pairs of names for which that happens.    *)
(***************************************************************************)
EXTENDS Integers, Sequences, FiniteSets, SequencesExt

CONSTANTS
  Names,       \* names of files and directories
  Tree,        \* the paths below "/"
  Dirs,        \* those that are directories
  NameStarts   \* pairs of names of which the first begins the second

ASSUME TreeAssumption ==
  /\ Tree \subseteq Seq(Names) \ {<< >>}
  /\ Dirs \subseteq Tree

VARIABLES
  exclude,   \* eps.exclude
  include,   \* eps.include
  named      \* the paths the caller has named

excludeVars == <<exclude, include, named>>

(* strings.HasPrefix(q, p)                                                 *)
HasPrefix(q, p) ==
  \/ IsPrefix(p, q)
  \/ /\ Len(p) <= Len(q)
     /\ Front(p) = SubSeq(q, 1, Len(p) - 1)
     /\ <<Last(p), q[Len(p)]>> \in NameStarts

(* A mistake: the prefix is looked for the other way round.                *)
AddExcludeSwapped(p) ==
  /\ exclude' = IF \E inc \in include : HasPrefix(p, inc)
                THEN exclude ELSE exclude \cup {p}
  /\ UNCHANGED include

AddExclude(p) ==
  /\ exclude' = IF \E inc \in include : HasPrefix(inc, p)
                THEN exclude ELSE exclude \cup {p}
  /\ UNCHANGED include

(* A mistake: the loop stops after the first directory.                    *)
AddIncludeOneUp(p) ==
  /\ exclude' = exclude \ {IF p \in Dirs THEN p ELSE Front(p)}
  /\ include' = include \cup {p}

(* The loop deletes the directory it begins with and all those above it.   *)
AddInclude(p) ==
  LET start == IF p \in Dirs THEN p ELSE Front(p)
  IN /\ exclude' = {q \in exclude : ~IsPrefix(q, start)}
     /\ include' = include \cup {p}

NamePath(p) ==
  /\ p \in Tree \ named
  /\ named' = named \cup {p}
  /\ AddExclude(p) \/ AddInclude(p)

ExcludeInit == exclude = {} /\ include = {} /\ named = {}

Walk == \E p \in Tree : NamePath(p)

ExcludeSpec == ExcludeInit /\ [][Walk]_excludeVars

(* What mksquashfs -ef and mkfs.erofs --exclude-path leave out: the listed *)
(* paths with everything below them.                                       *)
Dropped(list, p) == \E e \in list : IsPrefix(e, p)

-----------------------------------------------------------------------------
(* "/usr/bin/ls has changed but /usr hasn't" (exclude.go:32-34): no path   *)
(* that was included is left out, whatever was excluded above it before or *)
(* after.                                                                  *)
IncludedKept == \A p \in include : ~Dropped(exclude, p)

(* "everyting underneath is also implicitly excluded" (exclude.go:14): a   *)
(* path that was excluded is left out unless something below it is         *)
(* included, or something whose path begins, as a string, with its own: a  *)
(* path like /usr2 shields /usr.                                           *)
ExcludedDropped ==
  \A p \in named \ include :
    (\A inc \in include : ~HasPrefix(inc, p)) => Dropped(exclude, p)

(* The invariant both follow from: an excluded path that nothing shields   *)
(* is itself listed, so that it stays out when what is above it is taken   *)
(* from the list.                                                          *)
ExcludeInv ==
  /\ exclude \subseteq named /\ include \subseteq named /\ named \subseteq Tree
  /\ exclude \cap include = {}
  /\ IncludedKept
  /\ \A p \in named \ include :
       (\A inc \in include : ~HasPrefix(inc, p)) => p \in exclude
=============================================================================
