---------------------------- MODULE MCRegexCache ----------------------------
(* Small instance of RegexCache. *)
EXTENDS RegexCache, TLC

MCMatchedBy == "www" :> {"www"} @@ "w+" :> {"w", "www"} @@ ".*" :> {"w", "www", "api"}
             @@ "[bad" :> {} @@ "(bad" :> {}

=============================================================================
