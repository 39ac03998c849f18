---------------------------- MODULE MCElasticBF ----------------------------
(* ElasticBF with few keys, units and images, for TLC. *)
EXTENDS ElasticBF

=============================================================================
