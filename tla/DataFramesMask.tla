----------------------------- MODULE DataFramesMask -----------------------------
(***************************************************************************)
(* Frames/DataFramesMask: a setting that says which frames, by their       *)
(* names, may be exchanged.  Its words allow, with '!' prohibit, and may   *)
(* hold '*'.  An answer given once is kept and given again.                *)
(*                                                                         *)
(* A name or a pattern is a sequence of letters in upper or lower case.    *)
(* The constructor is one step and a call of allow() another.              *)
(***************************************************************************)
EXTENDS Integers, FiniteSets, SequencesExt

CONSTANTS
  Settings, \* sequences of [prohibits, pattern]
  Names     \* of frames: those of the definitions and those asked for

VARIABLES
  setting,         \* the words of the mask
  masksProhibited, \* _masksProhibited
  masksAllowed,    \* _masksAllowed
  knownNames,      \* _knownNames: name -> the answer
  asked            \* the last call of allow() and its answer, in a sequence

namesVars == <<setting, masksProhibited, masksAllowed, knownNames, asked>>

Star == "*"
UpperLetter == [a |-> "A", A |-> "A", b |-> "B", B |-> "B"]
ToUpper(text) == [i \in DOMAIN text |-> IF text[i] = Star THEN Star ELSE UpperLetter[text[i]]]

(* External: QRegExp in its mode Wildcard, for a pattern of at most one star. *)
ExactMatch(pattern, text) ==
  LET before == SelectInSeq(pattern, LAMBDA letter : letter = Star) - 1
      behind == Len(pattern) - before - 1
  IN IF before < 0 THEN pattern = text
     ELSE /\ Len(text) >= before + behind
          /\ SubSeq(text, 1, before) = SubSeq(pattern, 1, before)
          /\ SubSeq(text, Len(text) - behind + 1, Len(text)) = SubSeq(pattern, before + 2, Len(pattern))

(* The words of one kind; their order is not looked at.                    *)
Patterns(prohibit) == {ToUpper(word.pattern) : word \in {word \in Range(setting) : word.prohibits = prohibit}}

AllowByMasks(name) ==
  /\ \A pattern \in masksProhibited : ~ExactMatch(pattern, ToUpper(name))
  /\ \E pattern \in masksAllowed : ExactMatch(pattern, ToUpper(name))

(* allowFrameByMasks() also remembers, but never replaces, what it answers. *)
Remember(names) ==
  knownNames' = [name \in DOMAIN knownNames \cup names |->
                   IF name \in DOMAIN knownNames THEN knownNames[name] ELSE AllowByMasks(name)']

Init ==
  /\ setting \in Settings
  /\ masksProhibited = {} /\ masksAllowed = {}
  /\ knownNames = <<>> /\ asked = <<"new">>

(* A name of the definitions that holds a star is not remembered.          *)
Construct(keys) ==
  /\ asked = <<"new">>
  /\ masksProhibited' = Patterns(TRUE) /\ masksAllowed' = Patterns(FALSE)
  /\ Remember({ToUpper(key) : key \in {key \in keys : ~Contains(key, Star)}})
  /\ asked' = <<>>
  /\ UNCHANGED setting

Allow(name) ==
  LET upper == ToUpper(name)
  IN /\ asked # <<"new">>
     /\ UNCHANGED <<setting, masksProhibited, masksAllowed>>
     /\ Remember({upper})
     /\ asked' = <<name, knownNames'[upper]>>

Next ==
  \/ \E keys \in SUBSET Names : Construct(keys)
  \/ \E name \in Names : Allow(name)

Spec == Init /\ [][Next]_namesVars

---------------------------------------------------------------------------

(* A word means the names that it and they spell alike, in any case.       *)
Means(word, name) ==
  \E letters \in {<<>>} \cup {SubSeq(name, i, j) : i, j \in 1 .. Len(name)} :
    ToUpper(name) = FlattenSeq([i \in DOMAIN word.pattern |->
                                  IF word.pattern[i] = Star THEN ToUpper(letters) ELSE ToUpper(<<word.pattern[i]>>)])

(* Whatever was asked before and however a name without a star is spelled, *)
(* its frame is let through when a word of the setting allows it and none  *)
(* prohibits it.  Names with a star are left out: a comment of the         *)
(* constructor has them be names of service that are not to be exchanged,  *)
(* while allow() asks the masks about them as about any other.             *)
AnswersAsWritten ==
  Len(asked) = 2 /\ ~Contains(asked[1], Star) =>
    LET Some(prohibit) == \E word \in Range(setting) : word.prohibits = prohibit /\ Means(word, asked[1])
    IN asked[2] <=> Some(FALSE) /\ ~Some(TRUE)
=============================================================================
