----------------------------- MODULE TextMatch -----------------------------
(***************************************************************************)
(* src/src/text_match.rs: substring search over raw bytes, and the         *)
(* incremental matcher that the exec, HTTP and file probes feed with each   *)
(* chunk as it is appended to a capture buffer.                            *)
(*                                                                         *)
(* A byte string is a sequence.  A TextMatcher is the set of needles it has *)
(* found so far: the code's parallel vectors needles/matched and its        *)
(* counter matched_count carry the same information, because a needle that  *)
(* is listed twice is matched at the same moment in both places.            *)
(***************************************************************************)
EXTENDS Integers, Sequences

(* Some window of the haystack equals the needle; an empty needle is        *)
(* everywhere.                                                              *)
ContainsSlice(bytes, needle) ==
    \E i \in 0 .. Len(bytes) - Len(needle) :
        \A j \in 1 .. Len(needle) : bytes[i + j] = needle[j]

(* haystack[start..], start counted from zero. *)
Suffix(haystack, start) == SubSeq(haystack, start + 1, Len(haystack))

Least(a, b) == IF a <= b THEN a ELSE b

SaturatingSub(a, b) == IF a > b THEN a - b ELSE 0

(* Mutated: the search resumes at the old end of the buffer. *)
SearchStartAtEnd(previousLen, needle) == previousLen

(* Where the search for an unmatched needle resumes after an append: far    *)
(* enough back for a needle that straddles the old end of the buffer.       *)
SearchStart(previousLen, needle) ==
    SaturatingSub(previousLen, SaturatingSub(Len(needle), 1))

(* TextMatcher::new *)
NewMatcher(needles) == {n \in needles : Len(n) = 0}

(* TextMatcher::observe_appended *)
ObserveAppended(needles, matched, haystack, previousLen) ==
    LET from == Least(previousLen, Len(haystack)) IN
    matched \cup {n \in needles \ matched :
                    ContainsSlice(Suffix(haystack, SearchStart(from, n)), n)}

AllMatched(needles, matched) == matched = needles

AnyMatched(matched) == matched # {}
=============================================================================
