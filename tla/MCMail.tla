------------------------------- MODULE MCMail -------------------------------
(* Instances of Mail for TLC.                                              *)
EXTENDS Mail

CONSTANTS alice, m1, m2, c1

ToAlice == [m \in Mails |-> alice]
AsAlice == [c \in Clients |-> alice]
=============================================================================
