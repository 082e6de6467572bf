----------------------------- MODULE MCMergeSort ----------------------------
(***************************************************************************)
(* Small instances of MergeSort: every way in which up to five movies can  *)
(* score two different values and up to three can score three, one longer  *)
(* list, two and three requests in batches of two, and requests that match *)
(* some of the movies only.                                                *)
(***************************************************************************)
EXTENDS MergeSort

\* Genres whose cosines with <<1, 0>> are 0, 3/5, 4/5 and 1.
Genres == [s \in 0 .. 3 |-> <<<<0, 2>>, <<3, 4>>, <<4, 3>>, <<1, 0>>>>[s + 1]]

\* Movies with these scores; some have one name, and words occur in every second
\* title.
Movies(scores) ==
  [k \in DOMAIN scores |->
     [name |-> (3 * k) % 5, words |-> IF k % 2 = 1 THEN {"odd"} ELSE {},
      genres |-> Genres[scores[k]]]]

Request(keywords, genres) == [keywords |-> keywords, genres |-> genres]
All == Request("*", <<1, 0>>)

Files(scores, requests) == [movies |-> Movies(scores), requests |-> requests]

OneRequest ==
  {Files(s, <<All>>) : s \in BoundedSeq(0 .. 1, 5) \union BoundedSeq(0 .. 2, 3)
                               \union {<<0, 1, 2, 2, 2, 0, 3, 1, 1>>}}

\* Two movies of one direction and different lengths, one without genres, and
\* requests for both directions.
Scaled ==
  [movies |-> <<[name |-> 2, words |-> {"odd"}, genres |-> <<6, 8>>],
                [name |-> 1, words |-> {"odd"}, genres |-> <<3, 4>>],
                [name |-> 0, words |-> {}, genres |-> <<0, 0>>],
                [name |-> 3, words |-> {"odd"}, genres |-> <<4, 3>>]>>,
   requests |-> <<Request("odd", <<1, 0>>), Request("*", <<0, 5>>)>>]

MCInputs ==
  OneRequest \union
  { Scaled,
    Files(<<1, 2, 1>>, <<All, Request("odd", <<3, 4>>)>>),
    Files(<<0, 1, 2>>, <<Request("none", <<1, 0>>), Request("odd", <<1, 0>>), All>>) }
=============================================================================
