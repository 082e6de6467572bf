---------------------------- MODULE MovieRequests ---------------------------
(***************************************************************************)
(* HW4: what initialize and read_request make of the two input files, and  *)
(* which movies with which scores deal_request collects for a request.     *)
(*                                                                         *)
(* Doubles are whole numbers here, in units of 1/UNIT: the models' genres  *)
(* have lengths that divide UNIT, and rounding is left out.  A title is    *)
(* its place in the order of strcmp, and the keywords that occur in it.    *)
(***************************************************************************)
EXTENDS SortLibrary

CONSTANTS
  UNIT,
  NUM_OF_GENRE

\* Slip: only the first genre is looked at.
crossFirst(p1, p2) == p1[1] * p2[1]

cross(p1, p2) ==
  LET sum[i \in 0 .. NUM_OF_GENRE] == IF i = 0 THEN 0 ELSE sum[i - 1] + p1[i] * p2[i]
  IN  sum[NUM_OF_GENRE]

sqrt(n) == CHOOSE root \in 0 .. n : root * root = n

\* A profile of length one; no genres at all stay what they are.
normalize(genres) ==
  LET sum == sqrt(cross(genres, genres))
  IN  [i \in 1 .. NUM_OF_GENRE |-> IF sum = 0 THEN 0 ELSE (genres[i] * UNIT) \div sum]

read_movie(line) == [name |-> line.name, words |-> line.words, profile |-> normalize(line.genres)]
read_request(line) == [keywords |-> line.keywords, profile |-> normalize(line.genres)]

\* The movies of the first file and the requests of the second.
initialize(files) ==
  [movies |-> [k \in DOMAIN files.movies |-> read_movie(files.movies[k])],
   reqs   |-> [q \in DOMAIN files.requests |-> read_request(files.requests[q])]]

Matches(req, movie) == req.keywords = "*" \/ req.keywords \in movie.words

\* The array that is sorted for a request, in the order of the file.
Collected(files, q) ==
  LET in  == initialize(files)
      req == in.reqs[q]
      Item(movie) == [score |-> cross(movie.profile, req.profile), name |-> movie.name, secret |-> 0]
      range[i \in 0 .. Len(in.movies)] ==
        IF i = 0 THEN <<>>
        ELSE IF Matches(req, in.movies[i]) THEN Append(range[i - 1], Item(in.movies[i]))
             ELSE range[i - 1]
  IN  range[Len(in.movies)]

\* The beginning of an answer, without so many lines at the end.
Beginning(s, lost) == SubSeq(s, 1, Len(s) - lost)

-----------------------------------------------------------------------------
\* The same said of the files themselves: the square of the cosine between a
\* movie's genres and a request's, as a fraction, but for the request's length.
Cosine2(movie, req) ==
  LET product == cross(movie.genres, req.genres)
      length2 == cross(movie.genres, movie.genres)
  IN  IF product = 0 THEN <<0, 1>> ELSE <<product * product, length2>>

Precedes(a, b, req) ==
  LET x == Cosine2(a, req)
      y == Cosine2(b, req)
  IN  x[1] * y[2] > y[1] * x[2] \/ (x[1] * y[2] = y[1] * x[2] /\ a.name < b.name)

\* The names a request is to be answered with.
Wanted(files, q) ==
  LET req    == files.requests[q]
      movies == SelectSeq(files.movies, LAMBDA movie : Matches(req, movie))
      sorted == SortSeq(movies, LAMBDA a, b : Precedes(a, b, req))
  IN  [k \in DOMAIN sorted |-> sorted[k].name]
=============================================================================
