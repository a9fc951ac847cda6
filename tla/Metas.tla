------------------------------- MODULE Metas -------------------------------
(***************************************************************************)
(* The vocabulary of the two sides of the wire.  An account is named by    *)
(* the role it plays in an instruction; an argument by its name and its    *)
(* serialised type.                                                        *)
(***************************************************************************)

Meta(r, w, s) == [role |-> r, writable |-> w, signer |-> s]

\* AccountMeta::new and new_readonly, without and with is_signer; and the same
\* four kinds of field in an Anchor accounts struct.
R(r)  == Meta(r, FALSE, FALSE)
W(r)  == Meta(r, TRUE, FALSE)
S(r)  == Meta(r, FALSE, TRUE)
WS(r) == Meta(r, TRUE, TRUE)

To(p, x, b) == [program |-> p, built |-> x, builder |-> b]

Arg(n, t) == [name |-> n, type |-> t]

\* A field of an account's data, by its name and its width in bytes.
Field(n, w) == [name |-> n, width |-> w]

NoDefaults == [r \in {} |-> ""]

=============================================================================
