---------------------------- MODULE MCRedisReply ----------------------------
(* A small instance of RedisReply for TLC. *)
EXTENDS RedisReply, SampleReplies
=============================================================================
