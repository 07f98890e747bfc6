--------------------------- MODULE ExternalStatus ---------------------------
(***************************************************************************)
(* The address that the status updater reports in the status of the        *)
(* resources (internal/k8s/status.go): external-status-address of the      *)
(* ConfigMap, the addresses of the external service, or the address of the *)
(* IngressLink.  An updater is a record: the three sources and the status  *)
(* computed from them when one of them was saved last.                     *)
(***************************************************************************)
EXTENDS Sequences

NoAddress == ""

NewUpdater ==
  [externalStatusAddress |-> NoAddress, externalServiceAddresses |-> <<>>,
   bigIPAddress |-> NoAddress, status |-> <<>>]

\* Without an address and a fallback, the status is the empty address.
SaveStatusFromExternalStatus(su, address) ==
  [su EXCEPT
     !.externalStatusAddress = address,
     !.status = IF address = NoAddress /\ su.externalServiceAddresses # <<>>
                  THEN su.externalServiceAddresses
                ELSE IF address = NoAddress /\ su.bigIPAddress # NoAddress
                  THEN <<su.bigIPAddress>>
                ELSE <<address>>]

\* Mutant: the addresses are not kept while external-status-address is set.
SaveStatusFromExternalServiceForgets(su, addresses) ==
  IF su.externalStatusAddress # NoAddress THEN su
    ELSE [su EXCEPT !.externalServiceAddresses = addresses, !.status = addresses]

\* ClearStatusFromExternalService saves no addresses.
SaveStatusFromExternalService(su, addresses) ==
  [su EXCEPT
     !.externalServiceAddresses = addresses,
     !.status = IF su.externalStatusAddress # NoAddress THEN @ ELSE addresses]

SaveStatusFromIngressLink(su, ip) ==
  [su EXCEPT !.bigIPAddress = ip,
             !.status = IF su.externalStatusAddress # NoAddress THEN @ ELSE <<ip>>]

ClearStatusFromIngressLink(su) ==
  [su EXCEPT !.bigIPAddress = NoAddress,
             !.status = IF su.externalStatusAddress # NoAddress THEN @ ELSE <<>>]

\* What should be reported, given the sources: external-status-address takes
\* precedence over the external service, and the service over the IngressLink.
Reportable(address, addresses, ip) ==
  IF address # NoAddress THEN <<address>>
  ELSE IF addresses # <<>> THEN addresses
  ELSE IF ip # NoAddress THEN <<ip>>
  ELSE <<>>
=============================================================================
