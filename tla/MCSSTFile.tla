----------------------------- MODULE MCSSTFile -----------------------------
(* A few files for TLC, small but with every case: keys of several blocks,  *)
(* a key that fills a file, times below zero, a delete at the ends of time. *)
EXTENDS SSTFile

MCMinInt64 == -9
MCMaxInt64 == 9

MCKeyLen(k) == k

MCBlockLen(b) == 1 + 2 * Len(b)

Pt(k, t) == [t |-> t, v |-> <<k, t>>]

Bl(k, ts) == [key |-> k, block |-> [i \in DOMAIN ts |-> Pt(k, ts[i])]]

MCInputs ==
    {<<Bl(1, <<1, 2>>), Bl(1, <<4, 5>>), Bl(2, <<2>>), Bl(3, <<1, 5>>)>>,
     <<Bl(1, <<-3, -2>>), Bl(2, <<-2>>)>>,
     <<Bl(1, <<5>>), Bl(2, <<1>>), Bl(3, <<2, 3, 4>>)>>,
     <<Bl(2, <<1, 2>>), Bl(2, <<3>>), Bl(2, <<4, 5>>), Bl(3, <<3>>)>>}

Req(ks, min, max) == [keys |-> ks, min |-> min, max |-> max]

MCRequests ==
    {Req({1, 2, 3}, 1, 4), Req({1}, 2, 2), Req({2, 3}, 4, 5), Req({1, 2}, -3, 3),
     Req({2}, MinInt64, MaxInt64), Req({1, 3, 4}, 5, MaxInt64)}
=============================================================================
