SPECIFICATION Spec
INVARIANT VPNReservationFits
