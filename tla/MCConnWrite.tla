----------------------------- MODULE MCConnWrite -----------------------------
(* ConnWrite for TLC: the epoll modes and kinds of Conn of a run, and the    *)
(* buffer vectors handed to Writev.                                          *)
EXTENDS ConnWrite

MCSetups == {<<"LT", FALSE>>, <<"ET", FALSE>>, <<"ONESHOT", FALSE>>, <<"ET", TRUE>>}
MCVecs == {<<1, 1>>, <<1, 2>>}

MCAcceptedLT == {<<"LT", FALSE>>}
MCDialedLT == {<<"LT", TRUE>>}
=============================================================================
