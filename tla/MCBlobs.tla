------------------------------- MODULE MCBlobs -------------------------------
(* Instances of Blobs for TLC. *)
EXTENDS Blobs, TLC

\* A title and a file; a title that is empty, behind the file and in front of
\* it; two files.
SomeForms ==
  {<<"title", "file">>, <<"file", "no title">>, <<"no title", "file">>,
   <<"title", "file", "file">>}

Interchangeable == Permutations(Workers)
=============================================================================
