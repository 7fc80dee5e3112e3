\* every route, every relation, guests, impersonation, disabled communities
SPECIFICATION Spec
INVARIANTS
    PagesAreEarned
PROPERTIES
    GuardsLetGo
