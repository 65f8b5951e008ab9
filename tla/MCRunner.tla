------------------------------- MODULE MCRunner -------------------------------
(***************************************************************************)
(* Small instances of Runner.                                              *)
(***************************************************************************)
EXTENDS Runner

Called(use_reference, has_reference, has_client, keep_workdirs, relative_root) ==
    [use_reference |-> use_reference, has_reference |-> has_reference,
     has_client |-> has_client, keep_workdirs |-> keep_workdirs,
     relative_root |-> relative_root]

\* eval --model, eval --use-reference --keep with a relative --work-dir, and the same for
\* tasks that have no reference.
Model == Called(FALSE, TRUE, TRUE, FALSE, FALSE)
Reference == Called(TRUE, TRUE, FALSE, TRUE, TRUE)
Missing == Called(TRUE, FALSE, FALSE, FALSE, FALSE)

AllSettings == {Model, Reference, Missing}
ModelOnly == {Model}
ReferenceOnly == {Reference}

AllUtf8 == {TRUE}
AnyText == BOOLEAN

=============================================================================
