----------------------------- MODULE MCDnsArray -----------------------------
(* DnsArray on a ring of four slots, three DNS threads and two jobs.        *)
EXTENDS DnsArray
=============================================================================
