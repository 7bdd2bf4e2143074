--------------------------- MODULE MCAuthentication ---------------------------
(* A client that answers digest challenges, one that mixes the schemes, two that send the same
   UsernameToken, and one that writes the nonce of a token in another way, or puts another one
   in its place. *)
EXTENDS Authentication

CONSTANTS digest, mixed, token, again, writer

Badge == [expires |-> 2, trusted |-> TRUE, roles |-> {"Operator", "Extended"}]
Ask(http, wsse, at, class) ==
    [http |-> http, token |-> wsse, nonce |-> "plain", made |-> 1, created |-> at,
     bearer |-> Badge, class |-> class]
Same == Ask("bearer", "digest", 1, "ReadMedia")

MCNonces == {"plain", "padded", "other"}
MCDecoded == [plain |-> 1, padded |-> 1, other |-> 2]
MCRequests ==
    [c \in Clients |->
        IF c \in {token, again} THEN {Same}
        ELSE IF c = writer THEN {[Same EXCEPT !.nonce = n] : n \in MCNonces}
        ELSE IF c = digest THEN {Ask("digest", "none", 0, "ReadMedia")}
        ELSE {Ask("none", "none", 0, "PreAuth"), Ask("digest", "digest", 1, "ReadMedia"),
              Ask("digest", "digest", 2, "Actuate"), Ask("bearer", "none", 0, "Actuate"),
              Ask("broken", "broken", 0, "ReadMedia")}]
MCParties == {{digest}, {mixed}, {token, again}, {writer}}
MCRecords == {[right |-> TRUE, role |-> "User"], [right |-> FALSE, role |-> "User"]}
MCSettings == {[enabled |-> TRUE, jwt |-> TRUE]}
=============================================================================
