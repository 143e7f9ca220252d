------------------------------ MODULE MCRoles -------------------------------
(* Two of the five roles that hand off a document; workers are alike.      *)
EXTENDS Roles

MCDocuments == <<"product-owner", "engineering-lead">>

WorkerSymmetry == Permutations(Workers)
=============================================================================
