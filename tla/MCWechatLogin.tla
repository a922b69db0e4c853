---------------------------- MODULE MCWechatLogin ----------------------------
(***************************************************************************)
(* An instance of the WeChat login for TLC.                                *)
(***************************************************************************)
EXTENDS WechatLogin, TLC

Symmetric == Permutations(Requests) \cup Permutations(QRs) \cup Permutations(Accounts)
==============================================================================
