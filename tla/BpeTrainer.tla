----------------------------- MODULE BpeTrainer -----------------------------
(***************************************************************************)
(* learn_merges of BpeTokenizerTrainer (trainer.rs).  Words are linked     *)
(* lists over their bytes; pair_info holds the count and the places of     *)
(* every pair, kept up to date place by place while a pair is merged.      *)
(* Places are never deleted: one that has gone stale is recognized and     *)
(* skipped when its pair is merged.                                        *)
(***************************************************************************)
EXTENDS BpeVocab, FiniteSets, Functions

VARIABLES
  states,      \* PreTokenState of each word: tokens, next, prev, count
  pair_info,   \* PairInfo of each pair: count, locations
  pc,          \* pick, merge, panic, trained; then the steps of the encoder
  pair,        \* the pair being merged
  locations,   \* its places still to be visited
  merged_any

trainer == <<states, pair_info, pair, locations, merged_any>>

TOMBSTONE == 0

(* The words come out of a HashMap: in any order, each word once. *)
InitState(word) ==
  LET n == Len(word.tokens) IN
  [tokens |-> word.tokens, count |-> word.count,
   next |-> [i \in 1 .. n |-> IF i < n THEN i + 1 ELSE None],
   prev |-> [i \in 1 .. n |-> i - 1]]

(* A word as it is segmented now. *)
Chain(st) == Walk(st.tokens, st.next)

-----------------------------------------------------------------------------
(* The tables.  Definitions named Mutant... are plausible bugs, used by no *)
(* specification.                                                          *)
Subtract(info, key, n) ==
  IF key \in DOMAIN info THEN [info EXCEPT ![key].count = @ - n] ELSE info

MutantPlaces(places, place) == <<place>> \o places
Places(places, place) == Append(places, place)

Add(info, key, n, place) ==
  LET old == IF key \in DOMAIN info THEN info[key] ELSE [count |-> 0, locations |-> <<>>]
      new == [count |-> old.count + n, locations |-> Places(old.locations, place)]
  IN  [k \in DOMAIN info \cup {key} |-> IF k = key THEN new ELSE info[k]]

Underflows(info) == \E key \in DOMAIN info : info[key].count < 0

(* Word by word, from left to right. *)
AddWord(info, st, s) ==
  LET table[left \in 0 .. Len(st.tokens) - 1] ==
        IF left = 0 THEN info
        ELSE Add(table[left - 1], <<st.tokens[left], st.tokens[left + 1]>>, st.count, <<s, left>>)
  IN table[Len(st.tokens) - 1]

InitPairTables(sts) ==
  LET table[s \in 0 .. Len(sts)] ==
        IF s = 0 THEN <<>> ELSE AddWord(table[s - 1], sts[s], s)
  IN table[Len(sts)]

Init ==
  /\ \E corpus \in Corpora : states = [k \in DOMAIN corpus |-> InitState(corpus[k])]
  /\ pair_info = InitPairTables(states)
  /\ merged = <<>> /\ learned = <<>>
  /\ pc = "pick" /\ pair = <<>> /\ locations = <<>> /\ merged_any = FALSE

-----------------------------------------------------------------------------
Candidates == Best([p \in DOMAIN pair_info |-> pair_info[p].count])

FindBestPair ==
  /\ pc = "pick" /\ Len(merged) < NumMerges
  /\ \E best \in Candidates :
       /\ PushMerge(best)
       /\ pair' = best
       /\ locations' = pair_info[best].locations
       /\ pair_info' = Restrict(pair_info, DOMAIN pair_info \ {best})
  /\ merged_any' = FALSE /\ pc' = "merge"
  /\ UNCHANGED states

(* Whether the pair still starts at place left of a word. *)
MutantStarts(st, left) == st.next[left] # None /\ st.tokens[left] = pair[1]
Starts(st, left) ==
  /\ st.next[left] # None
  /\ st.tokens[left] = pair[1] /\ st.tokens[st.next[left]] = pair[2]

SkipStale ==
  /\ pc = "merge" /\ locations # <<>>
  /\ ~Starts(states[Head(locations)[1]], Head(locations)[2])
  /\ locations' = Tail(locations)
  /\ UNCHANGED <<states, pair_info, merged, learned, pc, pair, merged_any>>

MergePlace ==
  /\ pc = "merge" /\ locations # <<>>
  /\ LET s      == Head(locations)[1]
         left   == Head(locations)[2]
         st     == states[s]
         right  == st.next[left]
         before == st.prev[left]
         after  == st.next[right]
         id     == NumBytes + Len(merged)
         less1 == IF before = None THEN pair_info
                  ELSE Subtract(pair_info, <<st.tokens[before], pair[1]>>, st.count)
         less  == IF after = None THEN less1
                  ELSE Subtract(less1, <<pair[2], st.tokens[after]>>, st.count)
         more1 == IF before = None THEN less
                  ELSE Add(less, <<st.tokens[before], id>>, st.count, <<s, before>>)
         more  == IF after = None THEN more1
                  ELSE Add(more1, <<id, st.tokens[after]>>, st.count, <<s, left>>)
     IN /\ Starts(st, left)
        /\ states' = [states EXCEPT
             ![s].tokens[left] = id, ![s].tokens[right] = TOMBSTONE,
             ![s].next[left] = after,
             ![s].prev = IF after = None THEN @ ELSE [@ EXCEPT ![after] = left]]
        /\ pair_info' = more
        /\ pc' = IF Underflows(less) THEN "panic" ELSE pc
  /\ locations' = Tail(locations) /\ merged_any' = TRUE
  /\ UNCHANGED <<merged, learned, pair>>

MergeDone ==
  /\ pc = "merge" /\ locations = <<>>
  /\ pc' = IF merged_any THEN "pick" ELSE "panic"
  /\ UNCHANGED <<states, pair_info, merged, learned, pair, locations, merged_any>>

(* learn_merges returns; write_vocab keeps only the bytes of the merges. *)
WriteVocab ==
  /\ pc = "pick" /\ (Len(merged) = NumMerges \/ Candidates = {})
  /\ pc' = "trained"
  /\ states' = <<>> /\ pair_info' = <<>> /\ pair' = <<>>
  /\ locations' = <<>> /\ merged_any' = FALSE
  /\ UNCHANGED <<merged, learned>>

TrainNext == FindBestPair \/ SkipStale \/ MergePlace \/ MergeDone \/ WriteVocab

-----------------------------------------------------------------------------
(* Properties. *)

(* The words a naive trainer would have: a merge is applied everywhere at  *)
(* once, from left to right, when its pair is picked.                      *)
NaiveWords ==
  [s \in DOMAIN states |->
     [count |-> states[s].count,
      tokens |-> IF pc = "merge"
                 THEN MergeAll(Chain(states[s]), pair, NumBytes + Len(merged))
                 ELSE Chain(states[s])]]

Naive == INSTANCE NaiveBpe WITH words <- NaiveWords,
                                training <- pc \in {"pick", "merge", "panic"}

(* The incremental trainer learns exactly what recounting everything after *)
(* every merge learns, merges overlapping occurrences from left to right   *)
(* like it, and the places it visits one by one change nothing more.       *)
ImplementsNaiveBpe == Naive!Spec

(* When a pair is picked, each count is the number of live occurrences     *)
(* times the count of their words, and every live occurrence is listed,    *)
(* once; neither assertion of merge_pair has failed; and no two token ids  *)
(* stand for the same bytes, so that find_best_pair's order is total and   *)
(* from_file, which keeps the last of equal entries, loses none.           *)
TablesExact ==
  /\ pc # "panic"
  /\ \A i, j \in TokenIds : BytesOf(i) = BytesOf(j) => i = j
  /\ pc = "pick" =>
       \A p \in DOMAIN pair_info \cup DOMAIN Naive!Counts :
          IF p \in DOMAIN Naive!Counts
          THEN /\ p \in DOMAIN pair_info
               /\ pair_info[p].count = Naive!Counts[p]
               /\ \A s \in DOMAIN states : \A left \in DOMAIN states[s].next :
                    LET right == states[s].next[left] IN
                    right # None /\ <<states[s].tokens[left], states[s].tokens[right]>> = p
                    => Cardinality({i \in DOMAIN pair_info[p].locations :
                                      pair_info[p].locations[i] = <<s, left>>}) = 1
          ELSE pair_info[p].count = 0
=============================================================================
