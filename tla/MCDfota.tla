------------------------------ MODULE MCDfota ------------------------------
(* An upgrade package of two blocks, two attempts, a buffer of three pieces.   *)
EXTENDS Dfota

MCImage == <<"b1", "b2">>

MCAnswers ==
    {<<"200", "whole", "end", "b1", "b2">>,
     <<"200", "short", "end", "wrong">>,
     <<"200", "end", "fin">>,
     <<"302", "chunked", "end">>,
     <<"bit", "fin">>,
     <<"100", "bit", "bit", "bit">>}

MCFiles == {<<"b1", "b2">>, <<"b1">>}

Url(head, host, parts) == [head |-> head, host |-> host, parts |-> parts]

MCUrls ==
    {Url("ftp://", "name", "full"), Url("ftp://", "name", "path"),
     Url("ftp://", "name", "long"),
     Url("http://", "address", "full"), Url("http://", "name", "full"),
     Url("https://", "address", "full"), Url("http://", "name", "long"),
     Url("other", "name", "full")}
=============================================================================
