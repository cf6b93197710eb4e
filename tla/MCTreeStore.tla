---------------------------- MODULE MCTreeStore ----------------------------
EXTENDS TreeStore

MCContent == {<<"p">>, <<"p", "q">>}
=============================================================================
